---- MODULE Spec2Model ----
(***************************************************************************)
(* Mesh topology of dolfinx (cpp/dolfinx/mesh/Topology.{h,cpp}).           *)
(*                                                                         *)
(* Part I  : create_topology, the distributed vertex ownership and         *)
(*           renumbering protocol, one process (rank) per index of Ranks,  *)
(*           one action per stretch of code between two collectives.       *)
(* Part II : the Topology object and its layered storage (permanent base,  *)
(*           remanent layer, cache layers, locks).                         *)
(***************************************************************************)
EXTENDS Integers, Sequences, FiniteSets, TLC

(***************************************************************************)
(* Generic helpers                                                         *)
(***************************************************************************)
Max(S) == CHOOSE x \in S : \A y \in S : y <= x
Min(S) == CHOOSE x \in S : \A y \in S : x <= y
Range(s) == {s[i] : i \in DOMAIN s}
Reverse(s) == [i \in 1..Len(s) |-> s[Len(s) + 1 - i]]

RECURSIVE SortSet(_)
SortSet(S) ==
  IF S = {} THEN <<>> ELSE LET m == Min(S) IN <<m>> \o SortSet(S \ {m})

RECURSIVE Flatten(_)
Flatten(ss) == IF ss = <<>> THEN <<>> ELSE Head(ss) \o Flatten(Tail(ss))

RECURSIVE SumSeq(_)
SumSeq(s) == IF s = <<>> THEN 0 ELSE Head(s) + SumSeq(Tail(s))

\* position of x in the sequence s, 0 when absent
IndexIn(s, x) == IF x \in Range(s) THEN Min({i \in DOMAIN s : s[i] = x}) ELSE 0

(***************************************************************************)
(* Part I.  Bounds and the family of inputs                                *)
(***************************************************************************)
\* number of processes of the communicator
NumRanks == 3
\* number of cells of the global mesh (a prefix of MeshCells)
NumCells == 4
\* vertices per cell of the cell shape (triangle)
NumCellVertices == 3

Ranks == 0 .. (NumRanks - 1)

\* The global mesh, cells given by input global vertex indices. Cells 1,2
\* share an edge, cells 3,4 share an edge, and cell 1 touches cells 3,4 in
\* vertex 0 only; the further cells extend the strip.
MeshCells ==
  << <<0, 1, 2>>, <<1, 2, 3>>, <<0, 4, 5>>, <<0, 5, 6>>, <<2, 3, 7>>,
     <<5, 6, 8>> >>

CellIds == 1 .. NumCells
AllVertices == UNION {Range(MeshCells[i]) : i \in CellIds}
GhostModes == {"shared_facet", "shared_vertex"}
BadKinds == {"none", "first", "later"}
\* the rank whose cell list is malformed when the input is malformed
BadRank == Min(Ranks)

\* two cells are neighbours in the ghosting of the partitioner
Adjacent(i, j, mode) ==
  LET common == Range(MeshCells[i]) \cap Range(MeshCells[j])
  IN  IF mode = "shared_facet"
        THEN Cardinality(common) >= NumCellVertices - 1
        ELSE common # {}

OwnedIds(in, p) == {i \in CellIds : in.own[i] = p}
GhostIds(in, p) ==
  {j \in CellIds : /\ in.own[j] # p
                   /\ \E i \in OwnedIds(in, p) : Adjacent(i, j, in.mode)}

\* ids of the cells handed to rank p: owned cells first, ghost cells last
CellIdSeq(in, p) == SortSet(OwnedIds(in, p)) \o SortSet(GhostIds(in, p))

DropLast(s) == SubSeq(s, 1, Len(s) - 1)

\* the argument 'cells' of rank p
CellsOf(in, p) ==
  LET ids  == CellIdSeq(in, p)
      good == [k \in 1..Len(ids) |-> MeshCells[ids[k]]]
  IN  IF p # BadRank \/ in.bad = "none" \/ Len(ids) = 0 THEN good
      ELSE IF in.bad = "first"
             THEN [good EXCEPT ![1] = DropLast(@)]
             ELSE [good EXCEPT ![Len(ids)] = DropLast(@)]

\* the argument 'ghost_owners' of rank p
GhostOwnersOf(in, p) ==
  LET g == SortSet(GhostIds(in, p)) IN [k \in 1..Len(g) |-> in.own[g[k]]]

\* every cell of rank p has the number of vertices of the cell shape
WellFormed(in, p) ==
  \A k \in DOMAIN CellsOf(in, p) : Len(CellsOf(in, p)[k]) = NumCellVertices

ValidInput(in) == \A p \in Ranks : WellFormed(in, p)

\* the inputs: every distribution of the cells in which each rank has a
\* ghost cell, each of the two ghost modes, each iteration order of the
\* hash maps, and the malformed variants of rank BadRank's list
Inputs ==
  {i0 \in [own : [CellIds -> Ranks], mode : GhostModes, bad : BadKinds,
            hashDesc : BOOLEAN] :
     /\ \A p \in Ranks : GhostIds(i0, p) # {}
     /\ (i0.bad = "later" => Len(CellIdSeq(i0, BadRank)) > 1)
     /\ (i0.bad # "none" => ~i0.hashDesc)}


(***************************************************************************)
(* Part I.  State of create_topology                                       *)
(***************************************************************************)
VARIABLES
  inp,            \* the mesh distribution the arguments are drawn from
  cells,          \* per rank: the argument 'cells' (global vertex indices)
  origIndex,      \* per rank: the argument 'original_cell_index'
  ghostOwners,    \* per rank: the argument 'ghost_owners'
  pc,             \* per rank: "run", "error" (input rejected), "abort"
                  \* (an assertion failed), "done" (topology returned)
  step,           \* per rank: number of protocol stretches completed
  maxIndex,       \* per rank: max_index handed to MPI_Allreduce
  sendIndices,    \* per rank: send_indices of compute_index_sharing
  sendOwner,      \* per rank: send_owner of compute_index_sharing
  globalToProcs,  \* per rank: global_to_procs (index -> sharing ranks)
  g2l,            \* per rank: global_to_local_index
  cnt,            \* per rank: the counter c
  nlocal,         \* per rank: nlocal
  nghosts,        \* per rank: nghosts
  globalOffset,   \* per rank: global_offset
  neighbours,     \* per rank: neighbours (sorted ranks)
  sendPairs1,     \* per rank: send_pairs of ghost round 1, per neighbour slot
  sendPairs2,     \* per rank: send_pairs of ghost round 2, per neighbour slot
  ghostVertices,  \* per rank: ghost_vertices
  localCells      \* per rank: my_local_cells (cells in local vertex indices)

varsP == <<inp, cells, origIndex, ghostOwners, pc, step, maxIndex,
           sendIndices, sendOwner, globalToProcs, g2l, cnt, nlocal, nghosts,
           globalOffset, neighbours, sendPairs1, sendPairs2, ghostVertices,
           localCells>>

(***************************************************************************)
(* Part II.  State of a Topology object and its layered storage            *)
(***************************************************************************)
VARIABLES
  topo,         \* "none" before construction, "ok" once constructed,
                \* "invalid_argument" when the constructor threw, "abort"
                \* when an assertion failed
  supplied,     \* the keys of the storage handed to the constructor
  permanent,    \* permanent_storage: key -> value
  remBase,      \* remanent_storage: the layer that came with the supplied
                \* storage
  remLayer,     \* remanent_storage: the layer kept alive by remanent_lock
  cacheLayers,  \* cache: its layers, oldest first, each [data, locks]
  lastOp,       \* the last operation and what it returned
  repeated,     \* the last operation followed the create_* member of the
                \* same quantity, and that member had invoked its kernel
  kernels,      \* the external kernels the last operation invoked
  nops          \* number of operations performed on the object

\* threads that call members of one Topology concurrently
VARIABLES
  thrPc,        \* where each thread stands in the member it runs
  thrLock,      \* the cache layer the thread's lock keeps alive, 0 if none
  thrWrote,     \* the cache layer the thread's read_from wrote into, 0 if
                \* none
  thrRes,       \* what the thread's query returned
  thrRuns       \* members the thread has entered

varsT == <<thrPc, thrLock, thrWrote, thrRes, thrRuns>>

\* on_boundary applied to the data of one mesh
VARIABLES
  bIn,          \* the mesh and what the Topology holds of it
  bOut          \* what on_boundary did and returned

varsB == <<bIn, bOut>>

\* one computation of create_topology applied on its own
VARIABLES
  fnIn,         \* its arguments
  fnOut         \* what it yields
varsF == <<fnIn, fnOut>>

varsS == <<topo, supplied, permanent, remBase, remLayer, cacheLayers, lastOp,
           repeated, kernels, nops, varsT, varsB, varsF>>

vars == <<varsP, varsS>>

(***************************************************************************)
(* Part I.  The computations of create_topology, as the code does them     *)
(***************************************************************************)
\* num_local_cells = cells.num_nodes() - cell_ghost_indices.size()
NumLocalCells(cs, go) == Len(cs) - Len(go)

\* keys inserted with value -1: the vertices of the ghost cells
GhostCellVertices(cs, go) ==
  UNION {Range(cs[k]) : k \in (NumLocalCells(cs, go) + 1) .. Len(cs)}

LocalCellVertices(cs, go) ==
  UNION {Range(cs[k]) : k \in 1 .. NumLocalCells(cs, go)}

\* vertices which appear in both ghost and non-ghost cells
GhostBoundaryVertices(cs, go) ==
  LocalCellVertices(cs, go) \cap GhostCellVertices(cs, go)

\* vertices which appear in non-ghost cells only
LocalVertexSet(cs, go) ==
  LocalCellVertices(cs, go) \ GhostCellVertices(cs, go)

\* unknown_indices: the ghost boundary vertices in ascending order
UnknownIndices(cs, go) == SortSet(GhostBoundaryVertices(cs, go))

\* dolfinx::MPI::index_owner(size, index, N): the rank an index is sent to
IndexOwner(size, index, N) ==
  LET n == N \div size
      r == N % size
  IN  IF index < r * (n + 1) THEN index \div (n + 1)
      ELSE r + ((index - r * (n + 1)) \div n)

\* MPI_Allreduce(&max_index, &global_space, 1, MPI_INT64_T, MPI_SUM, comm);
\* global_space += 1
GlobalSpace(maxes) == SumSeq([k \in 1..NumRanks |-> maxes[k - 1]]) + 1

\* send_indices[index_owner].push_back(global_i)
SendIndices(unknown, gs) ==
  [r \in Ranks |->
     SelectSeq(unknown, LAMBDA v : IndexOwner(NumRanks, v, gs) = r)]

\* recv_indices of rank me: what every rank p sent to me
RecvIndices(sent, me) == [p \in Ranks |-> sent[p][me]]

\* the sharing ranks collected from the highest source rank down
SharingProcsDescending(recv, v) ==
  Flatten([k \in 1..NumRanks |->
             LET hits == SelectSeq(recv[NumRanks - k], LAMBDA w : w = v)
             IN  [j \in 1..Len(hits) |-> NumRanks - k]])

\* index_to_owner[recv_p[j]].push_back(p), p ascending
SharingProcs(recv, v) ==
  Flatten([k \in 1..NumRanks |->
             LET hits == SelectSeq(recv[k - 1], LAMBDA w : w = v)
             IN  [j \in 1..Len(hits) |-> k - 1]])

\* send_owner[p]: for every index received from p, the count and the ranks
SendOwner(recv) ==
  [p \in Ranks |->
     Flatten([j \in 1..Len(recv[p]) |->
                LET procs == SharingProcs(recv, recv[p][j])
                IN  <<Len(procs)>> \o procs])]

\* the loop 'while (c < r_owner.rows())' for one source rank
RECURSIVE ParseOwner(_, _, _, _, _)
ParseOwner(rOwner, c, i, sendV, acc) ==
  IF c > Len(rOwner) THEN acc
  ELSE LET count == rOwner[c]
           lst   == SubSeq(rOwner, c + 1, c + count)
           key   == sendV[i]
           acc2  == IF count = 0 THEN acc
                    ELSE IF key \in DOMAIN acc
                           THEN [acc EXCEPT ![key] = @ \o lst]
                           ELSE acc @@ (key :> lst)
       IN  ParseOwner(rOwner, c + 1 + count, i + 1, sendV, acc2)

\* the empty map
EmptyMap == [x \in {} |-> 0]

\* index_to_owner refilled with the locally needed indices
RECURSIVE FillFrom(_, _, _, _)
FillFrom(p, mySent, owners, acc) ==
  IF p >= NumRanks THEN acc
  ELSE FillFrom(p + 1, mySent, owners,
                ParseOwner(owners[p], 1, 1, mySent[p], acc))

\* the map compute_index_sharing returns on rank me
IndexToOwner(sentIdx, sentOwn, me) ==
  FillFrom(0, sentIdx[me], [q \in Ranks |-> sentOwn[q][me]], EmptyMap)

\* the ghost boundary vertices this rank owns: first sharing rank is me
OwnedBoundary(unknown, gtp, me) ==
  SelectSeq(unknown, LAMBDA v : gtp[v][1] = me)

\* a numbering that does not continue the count c after the first loop
NumberOwnedNoShift(cs, go, gtp, me) ==
  LET ls == LocalVertexSet(cs, go)
      lv == SortSet(ls)
      ob == OwnedBoundary(UnknownIndices(cs, go), gtp, me)
  IN  [v \in GhostCellVertices(cs, go) \cup ls |->
         IF v \in ls THEN IndexIn(lv, v) - 1
         ELSE IF v \in Range(ob) THEN IndexIn(ob, v) - 1
         ELSE -1]

\* a numbering that takes the owned boundary vertices before the vertices
\* of the local cells
NumberOwnedBoundaryFirst(cs, go, gtp, me) ==
  LET ls == LocalVertexSet(cs, go)
      lv == SortSet(ls)
      ob == OwnedBoundary(UnknownIndices(cs, go), gtp, me)
  IN  [v \in GhostCellVertices(cs, go) \cup ls |->
         IF v \in ls THEN Len(ob) + IndexIn(lv, v) - 1
         ELSE IF v \in Range(ob) THEN IndexIn(ob, v) - 1
         ELSE -1]

\* 'Number all indices which this process now owns': global_to_local_index
\* after the two numbering loops
NumberOwned(cs, go, gtp, me) ==
  LET ls == LocalVertexSet(cs, go)
      lv == SortSet(ls)
      ob == OwnedBoundary(UnknownIndices(cs, go), gtp, me)
  IN  [v \in GhostCellVertices(cs, go) \cup ls |->
         IF v \in ls THEN IndexIn(lv, v) - 1
         ELSE IF v \in Range(ob) THEN Len(lv) + IndexIn(ob, v) - 1
         ELSE -1]

\* nlocal = c after the two numbering loops
NLocal(l) == Cardinality({v \in DOMAIN l : l[v] # -1})

\* dolfinx::MPI::global_offset(comm, nlocal, true): exclusive prefix sum
GlobalOffset(nl, p) == SumSeq([k \in 1..p |-> nl[k - 1]])

\* neighbours taken from the owners of the shared vertices alone
NeighboursOwnersOnly(gtp, me) ==
  SortSet({gtp[v][1] : v \in DOMAIN gtp} \ {me})

\* vertex_neighbours, as the sorted vector 'neighbours'
Neighbours(gtp, me) ==
  SortSet((UNION {Range(gtp[v]) : v \in DOMAIN gtp}) \ {me})

\* the order in which 'for (const auto& q : global_to_procs)' visits the
\* keys of the unordered_map
HashOrder(desc, keys) ==
  IF desc THEN Reverse(SortSet(keys)) ELSE SortSet(keys)

\* proc_to_neighbours[r]: operator[] yields slot 0 for a rank never inserted
ProcToNeighbours(nb, r) == IF r \in Range(nb) THEN IndexIn(nb, r) ELSE 1

\* round 1 pairs that carry the position in the iteration instead of the
\* owner's local index
SendPairs1ByPosition(desc, me, gtp, l, off, nb) ==
  LET keys == HashOrder(desc, DOMAIN gtp)
  IN  [np \in 1..Len(nb) |->
         Flatten([k \in 1..Len(keys) |->
            LET q     == keys[k]
                procs == gtp[q]
            IN  IF procs[1] # me THEN <<>>
                ELSE Flatten([j \in 1..(Len(procs) - 1) |->
                       IF ProcToNeighbours(nb, procs[j + 1]) = np
                         THEN <<q, (k - 1) + off>> ELSE <<>>])])]

\* send_pairs of round 1: owners tell the sharing ranks the new global index
SendPairs1(desc, me, gtp, l, off, nb) ==
  LET keys == HashOrder(desc, DOMAIN gtp)
  IN  [np \in 1..Len(nb) |->
         Flatten([k \in 1..Len(keys) |->
            LET q     == keys[k]
                procs == gtp[q]
            IN  IF procs[1] # me THEN <<>>
                ELSE Flatten([j \in 1..(Len(procs) - 1) |->
                       IF ProcToNeighbours(nb, procs[j + 1]) = np
                         THEN <<q, l[q] + off>> ELSE <<>>])])]

\* neighbor_all_to_all: the data of every neighbour (in neighbour order)
\* addressed to rank me
RecvPairs(sent, nbs, me) ==
  LET nb == nbs[me]
  IN  Flatten([k \in 1..Len(nb) |->
         LET src  == nb[k]
             slot == IndexIn(nbs[src], me)
         IN  IF slot = 0 THEN <<>> ELSE sent[src][slot]])

\* round 1 unpacking that records the received input index in the ghost
\* slot instead of the new global index
RECURSIVE Unpack1StoresInputIndex(_, _, _, _)
Unpack1StoresInputIndex(pairs, i, nl, st) ==
  IF i > Len(pairs) THEN st
  ELSE LET gi == pairs[i]
       IN  IF gi \notin DOMAIN st.l \/ st.l[gi] # -1
             THEN [st EXCEPT !.ok = FALSE]
             ELSE Unpack1StoresInputIndex(pairs, i + 2, nl,
                    [st EXCEPT !.l[gi] = st.c, !.c = st.c + 1,
                               !.gv[st.c - nl + 1] = pairs[i]])

\* 'Unpack received data and make list of ghosts' (round 1);
\* st = [l, c, gv, ok]; ok = FALSE when an assertion of the loop fails
RECURSIVE Unpack1(_, _, _, _)
Unpack1(pairs, i, nl, st) ==
  IF i > Len(pairs) THEN st
  ELSE LET gi == pairs[i]
       IN  IF gi \notin DOMAIN st.l \/ st.l[gi] # -1
             THEN [st EXCEPT !.ok = FALSE]
             ELSE Unpack1(pairs, i + 2, nl,
                    [st EXCEPT !.l[gi] = st.c, !.c = st.c + 1,
                               !.gv[st.c - nl + 1] = pairs[i + 1]])

\* 'Unpack received data and add to ghosts' (round 2)
RECURSIVE Unpack2(_, _, _, _)
Unpack2(pairs, i, nl, st) ==
  IF i > Len(pairs) THEN st
  ELSE LET gi == pairs[i]
       IN  IF gi \notin DOMAIN st.l
             THEN [st EXCEPT !.ok = FALSE]
             ELSE IF st.l[gi] = -1
               THEN Unpack2(pairs, i + 2, nl,
                      [st EXCEPT !.l[gi] = st.c, !.c = st.c + 1,
                                 !.gv[st.c - nl + 1] = pairs[i + 1]])
               ELSE Unpack2(pairs, i + 2, nl, st)

\* index_map_c->compute_shared_indices(): for the owned cell with local
\* index i (1-based here) of rank me, the ranks that hold it as a ghost
SharedCells(oi, gos, me, i) ==
  {q \in Ranks \ {me} :
     \E k \in (Len(oi[q]) - Len(gos[q]) + 1) .. Len(oi[q]) :
        oi[q][k] = oi[me][i]}

\* forwarding the vertices of the shared owned cells to every other rank
FwdSharedVerticesToAll(css, oi, gos, me) ==
  LET cs  == css[me]
      sh  == [i \in 1..NumLocalCells(cs, gos[me]) |->
                SharedCells(oi, gos, me, i)]
      shc == {i \in DOMAIN sh : sh[i] # {}}
      vs  == UNION {Range(cs[i]) : i \in shc}
  IN  [v \in vs |-> Ranks \ {me}]

\* forwarding the vertices of every cell held, the ghost cells included
FwdSharedVerticesOfAllCells(css, oi, gos, me) ==
  LET cs  == css[me]
      nc  == NumLocalCells(cs, gos[me])
      sh  == [i \in 1..Len(cs) |->
                IF i <= nc THEN SharedCells(oi, gos, me, i)
                           ELSE {gos[me][i - nc]}]
      shc == {i \in DOMAIN sh : sh[i] # {}}
      vs  == UNION {Range(cs[i]) : i \in shc}
  IN  [v \in vs |-> UNION {sh[i] : i \in {k \in shc : v \in Range(cs[k])}}]

\* fwd_shared_vertices: vertex -> ranks sharing an owned cell that has it
FwdSharedVertices(css, oi, gos, me) ==
  LET cs  == css[me]
      sh  == [i \in 1..NumLocalCells(cs, gos[me]) |->
                SharedCells(oi, gos, me, i)]
      shc == {i \in DOMAIN sh : sh[i] # {}}
      vs  == UNION {Range(cs[i]) : i \in shc}
  IN  [v \in vs |-> UNION {sh[i] : i \in {k \in shc : v \in Range(cs[k])}}]

\* the new global index this rank knows for a numbered vertex
KnownGlobal(l, nl, off, gv, v) ==
  IF l[v] < nl THEN l[v] + off ELSE gv[l[v] - nl + 1]

\* the assertions made before forwarding hold
FwdResolved(fwd, l) == \A v \in DOMAIN fwd : v \in DOMAIN l /\ l[v] # -1

\* send_pairs of round 2: forward to the ranks that share a cell
SendPairs2(fwd, l, nl, off, gv, nb) ==
  LET vs == SortSet(DOMAIN fwd)
  IN  [np \in 1..Len(nb) |->
         Flatten([k \in 1..Len(vs) |->
            LET v  == vs[k]
                ps == SortSet(fwd[v])
            IN  Flatten([j \in 1..Len(ps) |->
                   IF ProcToNeighbours(nb, ps[j]) = np
                     THEN <<v, KnownGlobal(l, nl, off, gv, v)>>
                     ELSE <<>>])])]

\* my_local_cells_array[i] = global_to_local_index[cells_array[i]]
Relabel(cs, l) ==
  [k \in 1..Len(cs) |->
     [j \in 1..Len(cs[k]) |-> IF cs[k][j] \in DOMAIN l THEN l[cs[k][j]] ELSE 0]]

(***************************************************************************)
(* Part I.  Actions: one per stretch of code between two collectives       *)
(***************************************************************************)
\* no operation has been performed on a Topology object
NoOp == [op |-> "none", d0 |-> 0, d1 |-> 0, val |-> "null", ret |-> 0]

\* threads sharing one Topology
NumThreads == 2
Threads == 1 .. NumThreads

\* no thread is inside a member
InitT ==
  /\ thrPc = [t \in Threads |-> "idle"]
  /\ thrLock = [t \in Threads |-> 0]
  /\ thrWrote = [t \in Threads |-> 0]
  /\ thrRes = [t \in Threads |-> "none"]
  /\ thrRuns = [t \in Threads |-> 0]

\* on_boundary has not been called
NoMesh == [tdim |-> 0, cells |-> {}, desc |-> FALSE, held |-> FALSE]
NoResult ==
  [dim |-> 0, status |-> "none", marker |-> <<>>, requested |-> {},
   queried |-> FALSE]
InitB == bIn = NoMesh /\ bOut = NoResult

\* no computation is applied on its own
NoArgs == [fn |-> "none"]
InitF == fnIn = NoArgs /\ fnOut = NoArgs

\* Part II before a Topology is constructed
InitS ==
  /\ InitT
  /\ InitB
  /\ InitF
  /\ topo = "none"
  /\ supplied = {}
  /\ permanent = EmptyMap
  /\ remBase = EmptyMap
  /\ remLayer = EmptyMap
  /\ cacheLayers = <<>>
  /\ lastOp = NoOp
  /\ repeated = FALSE
  /\ kernels = {}
  /\ nops = 0

\* create_topology is entered on every rank with the arguments of input in
InitFrom(in) ==
  /\ inp = in
  /\ cells = [p \in Ranks |-> CellsOf(in, p)]
  /\ origIndex = [p \in Ranks |-> CellIdSeq(in, p)]
  /\ ghostOwners = [p \in Ranks |-> GhostOwnersOf(in, p)]
  /\ pc = [p \in Ranks |-> "run"]
  /\ step = [p \in Ranks |-> 0]
  /\ maxIndex = [p \in Ranks |-> 0]
  /\ sendIndices = [p \in Ranks |-> [r \in Ranks |-> <<>>]]
  /\ sendOwner = [p \in Ranks |-> [r \in Ranks |-> <<>>]]
  /\ globalToProcs = [p \in Ranks |-> EmptyMap]
  /\ g2l = [p \in Ranks |-> EmptyMap]
  /\ cnt = [p \in Ranks |-> 0]
  /\ nlocal = [p \in Ranks |-> 0]
  /\ nghosts = [p \in Ranks |-> 0]
  /\ globalOffset = [p \in Ranks |-> 0]
  /\ neighbours = [p \in Ranks |-> <<>>]
  /\ sendPairs1 = [p \in Ranks |-> <<>>]
  /\ sendPairs2 = [p \in Ranks |-> <<>>]
  /\ ghostVertices = [p \in Ranks |-> <<>>]
  /\ localCells = [p \in Ranks |-> <<>>]

InitP == InitS /\ \E in \in Inputs : InitFrom(in)

\* the check of the cell shape at the head of create_topology
ShapeCheckFails(cs) ==
  Len(cs) > 0 /\ Len(cs[1]) # NumCellVertices

\* rank q has handed its data to the k-th collective
Posted(q, k) == step[q] >= k

\* create_topology up to the MPI_Allreduce of compute_index_sharing:
\* shape check, cell index map, vertex classification, max_index
Start(p) ==
  /\ pc[p] = "run" /\ step[p] = 0
  /\ IF ShapeCheckFails(cells[p])
       THEN /\ pc' = [pc EXCEPT ![p] = "error"]
            /\ UNCHANGED <<step, maxIndex, g2l>>
       ELSE /\ GhostBoundaryVertices(cells[p], ghostOwners[p]) # {}
            /\ maxIndex' = [maxIndex EXCEPT
                 ![p] = Max(GhostBoundaryVertices(cells[p], ghostOwners[p]))]
            /\ g2l' = [g2l EXCEPT
                 ![p] = [v \in GhostCellVertices(cells[p], ghostOwners[p])
                           |-> -1]]
            /\ step' = [step EXCEPT ![p] = 1]
            /\ UNCHANGED pc
  /\ UNCHANGED varsS
  /\ UNCHANGED <<inp, cells, origIndex, ghostOwners, sendIndices, sendOwner,
                 globalToProcs, cnt, nlocal, nghosts, globalOffset,
                 neighbours, sendPairs1, sendPairs2, ghostVertices,
                 localCells>>

\* compute_index_sharing: the reduction has completed; route every unknown
\* index to its arbitration rank (first all_to_all)
RouteIndices(p) ==
  /\ pc[p] = "run" /\ step[p] = 1
  /\ \A q \in Ranks : Posted(q, 1)
  /\ sendIndices' = [sendIndices EXCEPT
       ![p] = SendIndices(UnknownIndices(cells[p], ghostOwners[p]),
                          GlobalSpace(maxIndex))]
  /\ step' = [step EXCEPT ![p] = 2]
  /\ UNCHANGED varsS
  /\ UNCHANGED <<inp, cells, origIndex, ghostOwners, pc, maxIndex, sendOwner,
                 globalToProcs, g2l, cnt, nlocal, nghosts, globalOffset,
                 neighbours, sendPairs1, sendPairs2, ghostVertices,
                 localCells>>

\* compute_index_sharing: aggregate the askers of every received index and
\* send the lists back (second all_to_all)
Arbitrate(p) ==
  /\ pc[p] = "run" /\ step[p] = 2
  /\ \A q \in Ranks : Posted(q, 2)
  /\ sendOwner' = [sendOwner EXCEPT
       ![p] = SendOwner(RecvIndices(sendIndices, p))]
  /\ step' = [step EXCEPT ![p] = 3]
  /\ UNCHANGED varsS
  /\ UNCHANGED <<inp, cells, origIndex, ghostOwners, pc, maxIndex,
                 sendIndices, globalToProcs, g2l, cnt, nlocal, nghosts,
                 globalOffset, neighbours, sendPairs1, sendPairs2,
                 ghostVertices, localCells>>

\* compute_index_sharing returns; number the owned vertices; nlocal goes
\* into the prefix sum
NumberLocal(p) ==
  /\ pc[p] = "run" /\ step[p] = 3
  /\ \A q \in Ranks : Posted(q, 3)
  /\ \E gtp \in {IndexToOwner(sendIndices, sendOwner, p)} :
       IF \E v \in GhostBoundaryVertices(cells[p], ghostOwners[p]) :
             v \notin DOMAIN gtp
         THEN /\ pc' = [pc EXCEPT ![p] = "abort"]
              /\ UNCHANGED <<step, globalToProcs, g2l, cnt, nlocal, nghosts>>
         ELSE \E l \in {NumberOwned(cells[p], ghostOwners[p], gtp, p)} :
              /\ globalToProcs' = [globalToProcs EXCEPT ![p] = gtp]
              /\ g2l' = [g2l EXCEPT ![p] = l]
              /\ cnt' = [cnt EXCEPT ![p] = NLocal(l)]
              /\ nlocal' = [nlocal EXCEPT ![p] = NLocal(l)]
              /\ nghosts' = [nghosts EXCEPT
                               ![p] = Cardinality(DOMAIN l) - NLocal(l)]
              /\ step' = [step EXCEPT ![p] = 4]
              /\ UNCHANGED pc
  /\ UNCHANGED varsS
  /\ UNCHANGED <<inp, cells, origIndex, ghostOwners, maxIndex, sendIndices,
                 sendOwner, globalOffset, neighbours, sendPairs1, sendPairs2,
                 ghostVertices, localCells>>

\* global offset, neighbour communicator, and the pairs of round 1
SendOwned(p) ==
  /\ pc[p] = "run" /\ step[p] = 4
  /\ \A q \in Ranks : q < p => Posted(q, 4)
  /\ \E off \in {GlobalOffset(nlocal, p)},
        nb \in {Neighbours(globalToProcs[p], p)} :
       /\ globalOffset' = [globalOffset EXCEPT ![p] = off]
       /\ neighbours' = [neighbours EXCEPT ![p] = nb]
       /\ sendPairs1' = [sendPairs1 EXCEPT
            ![p] = SendPairs1(inp.hashDesc, p, globalToProcs[p], g2l[p],
                              off, nb)]
  /\ step' = [step EXCEPT ![p] = 5]
  /\ UNCHANGED varsS
  /\ UNCHANGED <<inp, cells, origIndex, ghostOwners, pc, maxIndex,
                 sendIndices, sendOwner, globalToProcs, g2l, cnt, nlocal,
                 nghosts, sendPairs2, ghostVertices, localCells>>

\* ghost resolution round 1: unpack the owners' pairs, then forward the
\* vertices of the shared owned cells (round 2 send)
GhostRound1(p) ==
  /\ pc[p] = "run" /\ step[p] = 5
  /\ \A q \in Range(neighbours[p]) : Posted(q, 5)
  /\ \E st \in {Unpack1(RecvPairs(sendPairs1, neighbours, p), 1, nlocal[p],
                        [l |-> g2l[p], c |-> cnt[p],
                         gv |-> [k \in 1..nghosts[p] |-> -1], ok |-> TRUE])},
        fwd \in {FwdSharedVertices(cells, origIndex, ghostOwners, p)} :
       /\ g2l' = [g2l EXCEPT ![p] = st.l]
       /\ cnt' = [cnt EXCEPT ![p] = st.c]
       /\ ghostVertices' = [ghostVertices EXCEPT ![p] = st.gv]
       /\ IF /\ st.ok
             /\ FwdResolved(fwd, st.l)
             /\ (DOMAIN fwd # {} => neighbours[p] # <<>>)
            THEN /\ sendPairs2' = [sendPairs2 EXCEPT
                      ![p] = SendPairs2(fwd, st.l, nlocal[p], globalOffset[p],
                                        st.gv, neighbours[p])]
                 /\ step' = [step EXCEPT ![p] = 6]
                 /\ UNCHANGED pc
            ELSE /\ pc' = [pc EXCEPT ![p] = "abort"]
                 /\ UNCHANGED <<step, sendPairs2>>
  /\ UNCHANGED varsS
  /\ UNCHANGED <<inp, cells, origIndex, ghostOwners, maxIndex, sendIndices,
                 sendOwner, globalToProcs, nlocal, nghosts, globalOffset,
                 neighbours, sendPairs1, localCells>>

\* what the checks after round 2 can do: with assertions compiled in, an
\* unresolved ghost aborts; without them the topology is returned as it is
AfterChecks(ok, gv) ==
  IF ~ok THEN {"abort"}
  ELSE IF -1 \in Range(gv) THEN {"abort", "done"}
  ELSE {"done"}

\* ghost resolution round 2: fill the ghost slots still unresolved, relabel
\* the cells and return the topology
GhostRound2(p) ==
  /\ pc[p] = "run" /\ step[p] = 6
  /\ \A q \in Range(neighbours[p]) : Posted(q, 6)
  /\ \E st \in {Unpack2(RecvPairs(sendPairs2, neighbours, p), 1, nlocal[p],
                        [l |-> g2l[p], c |-> cnt[p], gv |-> ghostVertices[p],
                         ok |-> TRUE])} :
     \E out \in AfterChecks(st.ok, st.gv) :
       /\ g2l' = [g2l EXCEPT ![p] = st.l]
       /\ ghostVertices' = [ghostVertices EXCEPT ![p] = st.gv]
       /\ pc' = [pc EXCEPT ![p] = out]
       /\ IF out = "done"
            THEN /\ cnt' = [cnt EXCEPT ![p] = nghosts[p] + nlocal[p]]
                 /\ localCells' = [localCells EXCEPT
                                     ![p] = Relabel(cells[p], st.l)]
                 /\ step' = [step EXCEPT ![p] = 7]
            ELSE /\ cnt' = [cnt EXCEPT ![p] = st.c]
                 /\ UNCHANGED <<step, localCells>>
  /\ UNCHANGED varsS
  /\ UNCHANGED <<inp, cells, origIndex, ghostOwners, maxIndex, sendIndices,
                 sendOwner, globalToProcs, nlocal, nghosts, globalOffset,
                 neighbours, sendPairs1, sendPairs2>>

NextP ==
  \E p \in Ranks :
    \/ Start(p)
    \/ RouteIndices(p)
    \/ Arbitrate(p)
    \/ NumberLocal(p)
    \/ SendOwned(p)
    \/ GhostRound1(p)
    \/ GhostRound2(p)

SpecTopology == InitP /\ [][NextP]_vars

AllDone == \A p \in Ranks : pc[p] = "done"

(***************************************************************************)
(* Part I.  The whole of create_topology on all ranks as one function of   *)
(* the input: the stretches above composed in program order                *)
(***************************************************************************)
\* a function on Ranks, built rank by rank
RECURSIVE MapRanks(_, _, _)
MapRanks(F(_), p, acc) ==
  IF p >= NumRanks THEN acc ELSE MapRanks(F, p + 1, acc @@ (p :> F(p)))

PerRank(F(_)) == MapRanks(F, 0, EmptyMap)

RunResult(in) ==
  LET cs  == PerRank(LAMBDA p : CellsOf(in, p))
      oi  == PerRank(LAMBDA p : CellIdSeq(in, p))
      go  == PerRank(LAMBDA p : GhostOwnersOf(in, p))
      mx  == PerRank(LAMBDA p : Max(GhostBoundaryVertices(cs[p], go[p])))
      gs  == GlobalSpace(mx)
      si  == PerRank(LAMBDA p :
                       SendIndices(UnknownIndices(cs[p], go[p]), gs))
      so  == PerRank(LAMBDA p : SendOwner(RecvIndices(si, p)))
      gtp == PerRank(LAMBDA p : IndexToOwner(si, so, p))
      l0  == PerRank(LAMBDA p : NumberOwned(cs[p], go[p], gtp[p], p))
      nl  == PerRank(LAMBDA p : NLocal(l0[p]))
      off == PerRank(LAMBDA p : GlobalOffset(nl, p))
      nb  == PerRank(LAMBDA p : Neighbours(gtp[p], p))
      sp1 == PerRank(LAMBDA p :
                SendPairs1(in.hashDesc, p, gtp[p], l0[p], off[p], nb[p]))
      st1 == PerRank(LAMBDA p :
                Unpack1(RecvPairs(sp1, nb, p), 1, nl[p],
                        [l |-> l0[p], c |-> nl[p],
                         gv |-> [k \in 1..(Cardinality(DOMAIN l0[p]) - nl[p])
                                   |-> -1],
                         ok |-> TRUE]))
      sp2 == PerRank(LAMBDA p :
                SendPairs2(FwdSharedVertices(cs, oi, go, p), st1[p].l, nl[p],
                           off[p], st1[p].gv, nb[p]))
      st2 == PerRank(LAMBDA p :
                Unpack2(RecvPairs(sp2, nb, p), 1, nl[p], st1[p]))
  IN  [nlocal |-> nl, offset |-> off,
       l      |-> PerRank(LAMBDA p : st2[p].l),
       gv     |-> PerRank(LAMBDA p : st2[p].gv),
       cells  |-> PerRank(LAMBDA p : Relabel(cs[p], st2[p].l))]

(***************************************************************************)
(* Part I.  Claims                                                         *)
(***************************************************************************)
\* rank p references the input vertex v
Refs(p, v) == v \in DOMAIN g2l[p]
\* rank p holds v as an owned vertex: local index in [0, nlocal)
Owns(p, v) == Refs(p, v) /\ g2l[p][v] >= 0 /\ g2l[p][v] < nlocal[p]
\* rank p holds v as a ghost
IsGhost(p, v) == Refs(p, v) /\ g2l[p][v] >= nlocal[p]
\* the new global index rank p has for v
NewGlobal(p, v) ==
  KnownGlobal(g2l[p], nlocal[p], globalOffset[p], ghostVertices[p], v)
\* the run is over on all ranks, from a well-formed input
Returned == AllDone /\ ValidInput(inp)

\* C1: after create_topology has completed on all ranks, every referenced
\* input vertex is owned by exactly one rank (local index in [0, nlocal))
\* and every other rank that references it holds it as a ghost.
C1_UniqueOwner ==
  Returned =>
    \A v \in AllVertices :
      /\ Cardinality({p \in Ranks : Owns(p, v)}) = 1
      /\ \A q \in Ranks : (Refs(q, v) /\ ~Owns(q, v)) => IsGhost(q, v)

\* C2: the new global indices of the owned vertices over all ranks are
\* exactly 0 .. total_vertices-1, total_vertices the number of distinct
\* input vertices, and no index is given to two (rank, vertex) pairs.
C2_ContiguousGlobal ==
  Returned =>
    LET owned == {pv \in Ranks \X AllVertices : Owns(pv[1], pv[2])}
        idx(pv) == g2l[pv[1]][pv[2]] + globalOffset[pv[1]]
    IN  /\ {idx(pv) : pv \in owned} = 0 .. (Cardinality(AllVertices) - 1)
        /\ \A a, b \in owned : idx(a) = idx(b) => a = b

\* C3: every ghost slot records the owner's local index + the owner's
\* global offset, and no two ranks map one input vertex to two different
\* new global indices.
C3_GhostMatchesOwner ==
  Returned =>
    /\ \A p \in Ranks : \A v \in DOMAIN g2l[p] :
         IsGhost(p, v) =>
           /\ \E q \in Ranks : Owns(q, v)
           /\ \A q \in Ranks :
                Owns(q, v) => NewGlobal(p, v) = g2l[q][v] + globalOffset[q]
    /\ \A p, q \in Ranks : \A v \in DOMAIN g2l[p] \cap DOMAIN g2l[q] :
         NewGlobal(p, v) = NewGlobal(q, v)

\* C4: in the topology a rank returns, every entry of the cell-to-vertex
\* connectivity is a local index in [0, nlocal + nghosts), never -1, and
\* two different input vertices never get the same local index.
C4_LocalCellsValid ==
  \A p \in Ranks :
    (pc[p] = "done" /\ ValidInput(inp)) =>
      /\ Len(localCells[p]) = Len(cells[p])
      /\ \A k \in DOMAIN localCells[p] : \A j \in DOMAIN localCells[p][k] :
           /\ localCells[p][k][j] >= 0
           /\ localCells[p][k][j] < nlocal[p] + nghosts[p]
      /\ \A k, m \in DOMAIN localCells[p] :
           \A j \in DOMAIN cells[p][k], i \in DOMAIN cells[p][m] :
             cells[p][k][j] # cells[p][m][i]
               => localCells[p][k][j] # localCells[p][m][i]

\* C4 witness: all ranks have returned and some rank has relabelled a
\* vertex it sees in ghost cells only (resolved in round 2).
C4_Witness ==
  /\ Returned
  /\ \E p \in Ranks :
       \E v \in GhostCellVertices(cells[p], ghostOwners[p])
                  \ LocalCellVertices(cells[p], ghostOwners[p]) :
         \E k \in DOMAIN cells[p] : \E j \in DOMAIN cells[p][k] :
           cells[p][k][j] = v /\ localCells[p][k][j] >= nlocal[p]

\* C5 (as claimed): with the hash maps iterated in the other order the run
\* yields the same owned counts, cell-to-vertex labels and ghost lists.
C5_SameForAnyHashOrder ==
  Returned =>
    LET r == RunResult([inp EXCEPT !.hashDesc = ~@])
    IN  nlocal = r.nlocal /\ localCells = r.cells /\ ghostVertices = r.gv

\* C5 (amended): whatever the order in which the ranks complete their
\* collectives the result is the one function RunResult of the input, and
\* with the hash maps iterated in the other order the owned counts, the
\* local labels of the owned vertices and the new global index of every
\* referenced vertex on every rank are the same.
C5_NumberingDeterministic ==
  Returned =>
    LET r0 == RunResult(inp)
        r  == RunResult([inp EXCEPT !.hashDesc = ~@])
    IN  /\ nlocal = r0.nlocal /\ localCells = r0.cells
        /\ ghostVertices = r0.gv
        /\ nlocal = r.nlocal
        /\ \A p \in Ranks :
             /\ DOMAIN g2l[p] = DOMAIN r.l[p]
             /\ \A v \in DOMAIN g2l[p] :
                  /\ (g2l[p][v] < nlocal[p] => r.l[p][v] = g2l[p][v])
                  /\ NewGlobal(p, v)
                       = KnownGlobal(r.l[p], r.nlocal[p], r.offset[p],
                                     r.gv[p], v)

\* C5 witness: a returned run in which the other iteration order gives
\* some rank a different ghost list.
C5_Witness ==
  /\ Returned
  /\ RunResult([inp EXCEPT !.hashDesc = ~@]).gv # ghostVertices

\* C6: a rank whose cell list holds a cell with a wrong number of vertices
\* rejects the input before any communication.
C6_RejectsMalformed ==
  \A p \in Ranks :
    (\E k \in DOMAIN cells[p] : Len(cells[p][k]) # NumCellVertices)
      => step[p] = 0

(***************************************************************************)
(* Part II.  The layered store behind a Topology object.  A storage is a   *)
(* chain of layers (key -> value); lookup walks the chain most recent      *)
(* first.  Values are "given" (supplied at construction) or "kernel"       *)
(* (computed by an external kernel).                                       *)
(***************************************************************************)
\* topological dimension of the cell type (triangle)
TDim == 2
\* external cache locks that may be alive at once
MaxLocks == 2
\* operations performed on one Topology object
MaxOps == 3
\* size_local of an index map the entity kernel returns: none, some
EntityCounts == {0, 1}

Dims == 0 .. TDim
Null == "null"
IndexMapKey(d) == <<"index_map", d, 0>>
ConnKey(d0, d1) == <<"connectivity", d0, d1>>
InteriorFacetsKey == <<"interior_facets", 0, 0>>
CellPermKey == <<"cell_permutations", 0, 0>>
FacetPermKey == <<"facet_permutations", 0, 0>>

\* the data that define a topology
Essentials ==
  {IndexMapKey(0), IndexMapKey(TDim), ConnKey(TDim, 0), ConnKey(0, 0)}

\* what compute_entities(topology, dim) produces together
EntityKeys(dim) == {IndexMapKey(dim), ConnKey(TDim, dim), ConnKey(dim, 0)}

\* lookup in one layer
LayerGet(layer, k) == IF k \in DOMAIN layer THEN layer[k] ELSE Null

\* set_connectivity / set_index_map / ...: a null pointer is not stored
LayerSet(layer, k, v) ==
  IF v = Null THEN layer
  ELSE [x \in DOMAIN layer \cup {k} |-> IF x = k THEN v ELSE layer[x]]

\* read_from: the data of 'from' are copied into the layer
LayerReadFrom(layer, from) ==
  [x \in DOMAIN layer \cup DOMAIN from |->
     IF x \in DOMAIN from THEN from[x] ELSE layer[x]]

\* lookup in a chain of layers (oldest first), most recent layer first
RECURSIVE StackGet(_, _)
StackGet(layers, k) ==
  IF layers = <<>> THEN Null
  ELSE IF k \in DOMAIN layers[Len(layers)] THEN layers[Len(layers)][k]
  ELSE StackGet(DropLast(layers), k)

\* acquire_cache_lock that starts a new layer at every call
AcquireAlwaysNew(cl, force) == Append(cl, [data |-> EmptyMap, locks |-> 1])

\* acquire_cache_lock(force_new_layer) on a storage with layers cl: a new
\* layer if none is alive or one is forced, else one more lock on the most
\* recent layer
Acquire(cl, force) ==
  IF cl = <<>> \/ force
    THEN Append(cl, [data |-> EmptyMap, locks |-> 1])
    ELSE [cl EXCEPT ![Len(cl)].locks = @ + 1]

\* layers no lock and no later layer refers to are reclaimed
RECURSIVE Prune(_)
Prune(cl) ==
  IF cl # <<>> /\ cl[Len(cl)].locks = 0 THEN Prune(DropLast(cl)) ELSE cl

\* the end of life of a lock on layer i
Release(cl, i) == Prune([cl EXCEPT ![i].locks = @ - 1])

\* the data held by the layers of the cache itself
RECURSIVE CacheOwn(_)
CacheOwn(cl) ==
  IF cl = <<>> THEN EmptyMap
  ELSE LayerReadFrom(CacheOwn(DropLast(cl)), cl[Len(cl)].data)

\* cache.read_from(scratch.cache): into the most recent layer of the cache
CacheWrite(cl, new) ==
  [cl EXCEPT ![Len(cl)].data = LayerReadFrom(@, new)]

\* number of locks alive on the cache
RECURSIVE NumLocks(_)
NumLocks(cl) ==
  IF cl = <<>> THEN 0 ELSE cl[Len(cl)].locks + NumLocks(DropLast(cl))

(***************************************************************************)
(* Part II.  The views of a Topology: remanent_storage is the supplied     *)
(* storage (layer rb) with the layer of remanent_lock (rl) on top; cache   *)
(* reads through to remanent_storage.                                      *)
(***************************************************************************)
RemanentGet(rb, rl, k) == StackGet(<<rb, rl>>, k)

CacheGet(rb, rl, cl, k) ==
  StackGet(<<rb, rl>> \o [i \in 1..Len(cl) |-> cl[i].data], k)

\* check_storage: the four items looked up with the dimension tdim passed in
CheckStorage(storage, tdim) ==
  /\ LayerGet(storage, IndexMapKey(tdim)) # Null
  /\ LayerGet(storage, IndexMapKey(0)) # Null
  /\ LayerGet(storage, ConnKey(tdim, 0)) # Null
  /\ LayerGet(storage, ConnKey(0, 0)) # Null

\* the dimensions cell_dim can yield for the member _cell_type in the
\* initialiser of remanent_storage: _cell_type is declared after
\* remanent_storage, so it is read before it is initialised
CheckDims == Dims

\* 'Make essential data permanent': (dim(),0) is copied twice, (0,0) never
MakePermanent(storage) ==
  LET p1 == LayerSet(EmptyMap, ConnKey(TDim, 0),
                     LayerGet(storage, ConnKey(TDim, 0)))
      p2 == LayerSet(p1, ConnKey(TDim, 0), LayerGet(storage, ConnKey(TDim, 0)))
      p3 == LayerSet(p2, IndexMapKey(TDim),
                     LayerGet(storage, IndexMapKey(TDim)))
  IN  LayerSet(p3, IndexMapKey(0), LayerGet(storage, IndexMapKey(0)))

(***************************************************************************)
(* Part II.  On-the-fly computation.  A handler is a function of the       *)
(* record st = [rl, cl, ks, ok, res]: layer of remanent_lock, cache        *)
(* layers, kernels invoked, assertions held, value returned.               *)
(***************************************************************************)
NoNew == [new |-> EmptyMap, ks |-> {}]

\* the entities a scratch object computes for the dimensions ds: those that
\* have neither an index map nor vertices in the view
EntitiesFor(rb, rl, cl, ds) ==
  LET need == {d \in ds : /\ CacheGet(rb, rl, cl, IndexMapKey(d)) = Null
                          /\ CacheGet(rb, rl, cl, ConnKey(d, 0)) = Null}
  IN  IF need = {} THEN NoNew
      ELSE [new |-> [k \in UNION {EntityKeys(d) : d \in need} |-> "kernel"],
            ks  |-> {"compute_entities"}]

\* scratch.create_connectivity(d0, d1, discard_intermediate)
ScratchConnectivity(rb, rl, cl, d0, d1, discard) ==
  LET e == EntitiesFor(rb, rl, cl, {d0, d1})
  IN  [new |-> LayerSet(IF discard THEN EmptyMap ELSE e.new,
                        ConnKey(d0, d1), "kernel"),
       ks  |-> e.ks \cup {"compute_connectivity"}]

\* scratch.create_interior_facets(discard_intermediate)
ScratchInteriorFacets(rb, rl, cl, discard) ==
  LET c == IF CacheGet(rb, rl, cl, ConnKey(TDim - 1, TDim)) # Null THEN NoNew
           ELSE ScratchConnectivity(rb, rl, cl, TDim - 1, TDim, FALSE)
  IN  [new |-> LayerSet(IF discard THEN EmptyMap ELSE c.new,
                        InteriorFacetsKey, "kernel"),
       ks  |-> c.ks \cup {"compute_interior_facets"}]

\* scratch.create_entity_permutations(discard_intermediate)
ScratchPermutations(rb, rl, cl, discard) ==
  LET e == EntitiesFor(rb, rl, cl, 0 .. (TDim - 1))
  IN  [new |-> LayerSet(LayerSet(IF discard THEN EmptyMap ELSE e.new,
                                 FacetPermKey, "kernel"),
                        CellPermKey, "kernel"),
       ks  |-> e.ks \cup {"compute_entity_permutations"}]

\* the tail of a query whose lock does not end at the return
QueryTailKeepsLock(rb, st, cl1, j, sc, k) ==
  LET cl2 == CacheWrite(cl1, sc.new)
  IN  [rl |-> st.rl, cl |-> cl2, ks |-> st.ks \cup sc.ks,
       ok |-> st.ok, res |-> CacheGet(rb, st.rl, cl2, k)]

\* the tail of a query: the scratch data are read into the cache, the value
\* is looked up, and the lock on layer j ends
QueryTail(rb, st, cl1, j, sc, k) ==
  LET cl2 == CacheWrite(cl1, sc.new)
  IN  [rl |-> st.rl, cl |-> Release(cl2, j), ks |-> st.ks \cup sc.ks,
       ok |-> st.ok, res |-> CacheGet(rb, st.rl, cl2, k)]

\* index_map whose lock outlives the call when the map is found
QIndexMapKeepsLock(rb, st, dim) ==
  LET cl1   == Acquire(st.cl, FALSE)
      j     == Len(cl1)
      found == CacheGet(rb, st.rl, cl1, IndexMapKey(dim))
  IN  IF found # Null
        THEN [st EXCEPT !.cl = cl1, !.res = found]
        ELSE QueryTail(rb, st, cl1, j,
                       EntitiesFor(rb, st.rl, cl1, {dim}), IndexMapKey(dim))

\* Topology::index_map(dim)
QIndexMap(rb, st, dim) ==
  LET cl1   == Acquire(st.cl, FALSE)
      j     == Len(cl1)
      found == CacheGet(rb, st.rl, cl1, IndexMapKey(dim))
  IN  IF found # Null
        THEN [st EXCEPT
                !.cl = Release(cl1, j), !.res = found,
                !.ok = /\ @
                       /\ CacheGet(rb, st.rl, cl1, ConnKey(TDim, dim)) # Null
                       /\ CacheGet(rb, st.rl, cl1, ConnKey(dim, 0)) # Null]
        ELSE QueryTail(rb, st, cl1, j,
                       EntitiesFor(rb, st.rl, cl1, {dim}), IndexMapKey(dim))

\* Topology::connectivity(d0, d1, discard_intermediate)
QConnectivity(rb, st, d0, d1, discard) ==
  LET found == CacheGet(rb, st.rl, st.cl, ConnKey(d0, d1))
      cl1   == Acquire(st.cl, FALSE)
  IN  IF found # Null THEN [st EXCEPT !.res = found]
      ELSE QueryTail(rb, st, cl1, Len(cl1),
                     ScratchConnectivity(rb, st.rl, cl1, d0, d1, discard),
                     ConnKey(d0, d1))

\* Topology::interior_facets(discard_intermediate)
QInteriorFacets(rb, st, discard) ==
  LET found == CacheGet(rb, st.rl, st.cl, InteriorFacetsKey)
      cl1   == Acquire(st.cl, FALSE)
  IN  IF found # Null THEN [st EXCEPT !.res = found]
      ELSE QueryTail(rb, st, cl1, Len(cl1),
                     ScratchInteriorFacets(rb, st.rl, cl1, discard),
                     InteriorFacetsKey)

\* Topology::get_cell_permutation_info(discard_intermediate)
QCellPermutations(rb, st, discard) ==
  LET cl1   == Acquire(st.cl, FALSE)
      j     == Len(cl1)
      found == CacheGet(rb, st.rl, cl1, CellPermKey)
  IN  IF found # Null
        THEN [st EXCEPT
                !.cl = Release(cl1, j), !.res = found,
                !.ok = @ /\ CacheGet(rb, st.rl, cl1, FacetPermKey) # Null]
        ELSE QueryTail(rb, st, cl1, j,
                       ScratchPermutations(rb, st.rl, cl1, discard),
                       CellPermKey)

\* Topology::get_facet_permutations(discard_intermediate)
QFacetPermutations(rb, st, discard) ==
  LET cl1   == Acquire(st.cl, FALSE)
      j     == Len(cl1)
      found == CacheGet(rb, st.rl, cl1, FacetPermKey)
      s1    == QCellPermutations(rb, [st EXCEPT !.cl = cl1], discard)
  IN  IF found # Null
        THEN [st EXCEPT
                !.cl = Release(cl1, j), !.res = found,
                !.ok = @ /\ CacheGet(rb, st.rl, cl1, CellPermKey) # Null]
        ELSE [s1 EXCEPT !.cl = Release(s1.cl, j),
                        !.res = CacheGet(rb, s1.rl, s1.cl, FacetPermKey)]

(***************************************************************************)
(* Part II.  The create_* members: they write to remanent_storage, whose   *)
(* writable layer is the layer of remanent_lock.  Each yields              *)
(* [rl, cl, ks, ok, ret].                                                  *)
(***************************************************************************)
Stored(rl, cl, ks, ok, ret) ==
  [rl |-> rl, cl |-> cl, ks |-> ks, ok |-> ok, ret |-> ret]

\* the state a member starts from
Enter(rl, cl) == [rl |-> rl, cl |-> cl, ks |-> {}, ok |-> TRUE, res |-> Null]

\* create_entities without the test for existing entities: every call
\* computes
CreateEntitiesOpRecompute(rb, rl, cl, dim, n) ==
  LET k1 == LayerSet(rl, ConnKey(TDim, dim), "kernel")
      k2 == LayerSet(k1, ConnKey(dim, 0), "kernel")
      k3 == LayerSet(k2, IndexMapKey(dim), "kernel")
  IN  Stored(k3, cl, {"compute_entities"}, TRUE, n)

\* Topology::create_entities(dim); n is the size_local of the new index map
CreateEntitiesOp(rb, rl, cl, dim, n) ==
  LET conn == CacheGet(rb, rl, cl, ConnKey(dim, 0))
      r1   == LayerSet(rl, ConnKey(dim, 0), conn)
      r2   == LayerSet(r1, IndexMapKey(dim),
                       CacheGet(rb, r1, cl, IndexMapKey(dim)))
      r3   == LayerSet(r2, ConnKey(TDim, dim),
                       CacheGet(rb, r2, cl, ConnKey(TDim, dim)))
      k1   == LayerSet(rl, ConnKey(TDim, dim), "kernel")
      k2   == LayerSet(k1, ConnKey(dim, 0), "kernel")
      k3   == LayerSet(k2, IndexMapKey(dim), "kernel")
  IN  IF conn # Null THEN Stored(r3, cl, {}, TRUE, -1)
      ELSE Stored(k3, cl, {"compute_entities"}, TRUE, n)

\* create_connectivity without the test for existing connectivity: every
\* call computes
CreateConnectivityOpRecompute(rb, rl, cl, d0, d1, discard) ==
  LET cl1 == Acquire(cl, TRUE)
      s1  == QIndexMap(rb, Enter(rl, cl1), d0)
      s2  == QIndexMap(rb, s1, d1)
      r1  == IF discard THEN s2.rl ELSE LayerReadFrom(s2.rl, CacheOwn(s2.cl))
  IN  Stored(LayerSet(r1, ConnKey(d0, d1), "kernel"),
             Release(s2.cl, Len(cl1)),
             s2.ks \cup {"compute_connectivity"}, s2.ok, 0)

\* Topology::create_connectivity(d0, d1, discard_intermediate)
CreateConnectivityOp(rb, rl, cl, d0, d1, discard) ==
  LET conn == CacheGet(rb, rl, cl, ConnKey(d0, d1))
      cl1  == Acquire(cl, TRUE)
      s1   == QIndexMap(rb, Enter(rl, cl1), d0)
      s2   == QIndexMap(rb, s1, d1)
      r1   == IF discard THEN s2.rl ELSE LayerReadFrom(s2.rl, CacheOwn(s2.cl))
  IN  IF conn # Null
        THEN Stored(LayerSet(rl, ConnKey(d0, d1), conn), cl, {}, TRUE, 0)
        ELSE Stored(LayerSet(r1, ConnKey(d0, d1), "kernel"),
                    Release(s2.cl, Len(cl1)),
                    s2.ks \cup {"compute_connectivity"}, s2.ok, 0)

\* Topology::create_interior_facets(discard_intermediate)
CreateInteriorFacetsOp(rb, rl, cl, discard) ==
  LET facets == CacheGet(rb, rl, cl, InteriorFacetsKey)
      cl1    == Acquire(cl, TRUE)
      s1     == QConnectivity(rb, Enter(rl, cl1), TDim - 1, TDim, FALSE)
      r1     == IF discard THEN s1.rl
                ELSE LayerReadFrom(s1.rl, CacheOwn(s1.cl))
  IN  IF facets # Null
        THEN Stored(LayerSet(rl, InteriorFacetsKey, facets), cl, {}, TRUE, 0)
        ELSE Stored(LayerSet(r1, InteriorFacetsKey, "kernel"),
                    Release(s1.cl, Len(cl1)),
                    s1.ks \cup {"compute_interior_facets"}, s1.ok, 0)

\* 'for (int d = 0; d < tdim; ++d) index_map(d, false)'
RECURSIVE AllIndexMaps(_, _, _)
AllIndexMaps(rb, st, d) ==
  IF d >= TDim THEN st ELSE AllIndexMaps(rb, QIndexMap(rb, st, d), d + 1)

\* create_entity_permutations that stores the cell permutation info alone
CreateEntityPermutationsOpCellOnly(rb, rl, cl, discard) ==
  LET perm == CacheGet(rb, rl, cl, CellPermKey)
      p1   == LayerSet(rl, CellPermKey, perm)
      cl1  == Acquire(cl, TRUE)
      s1   == AllIndexMaps(rb, Enter(rl, cl1), 0)
      r1   == IF discard THEN s1.rl ELSE LayerReadFrom(s1.rl, CacheOwn(s1.cl))
      r3   == LayerSet(r1, CellPermKey, "kernel")
  IN  IF perm # Null THEN Stored(p1, cl, {}, TRUE, 0)
      ELSE Stored(r3, Release(s1.cl, Len(cl1)),
                  s1.ks \cup {"compute_entity_permutations"}, s1.ok, 0)

\* Topology::create_entity_permutations(discard_intermediate)
CreateEntityPermutationsOp(rb, rl, cl, discard) ==
  LET perm == CacheGet(rb, rl, cl, CellPermKey)
      p1   == LayerSet(rl, CellPermKey, perm)
      p2   == LayerSet(p1, FacetPermKey, CacheGet(rb, p1, cl, FacetPermKey))
      cl1  == Acquire(cl, TRUE)
      s1   == AllIndexMaps(rb, Enter(rl, cl1), 0)
      r1   == IF discard THEN s1.rl ELSE LayerReadFrom(s1.rl, CacheOwn(s1.cl))
      r2   == LayerSet(r1, FacetPermKey, "kernel")
      r3   == LayerSet(r2, CellPermKey, "kernel")
  IN  IF perm # Null THEN Stored(p2, cl, {}, TRUE, 0)
      ELSE Stored(r3, Release(s1.cl, Len(cl1)),
                  s1.ks \cup {"compute_entity_permutations"}, s1.ok, 0)

(***************************************************************************)
(* Part II.  Actions: one per member function called on the object         *)
(***************************************************************************)
\* a failed assertion aborts when assertions are compiled in
AssertOutcomes(ok) == IF ok THEN {"go"} ELSE {"go", "abort"}

\* the quantity a member creates or returns
Quantity(name, d0, d1) ==
  IF name \in {"create_entities", "index_map"} THEN <<"entities", d0, 0>>
  ELSE IF name \in {"create_connectivity", "connectivity"}
    THEN <<"connectivity", d0, d1>>
  ELSE IF name \in {"create_interior_facets", "interior_facets"}
    THEN <<"interior_facets", 0, 0>>
  ELSE IF name \in {"create_entity_permutations",
                    "get_cell_permutation_info", "get_facet_permutations"}
    THEN <<"permutations", 0, 0>>
  ELSE <<"none", 0, 0>>

CreateMembers ==
  {"create_entities", "create_connectivity", "create_interior_facets",
   "create_entity_permutations"}

\* the object can take a call
Ready == topo = "ok" /\ nops < MaxOps

\* the member returns: st is what it left behind, val/ret what it returned
Finish(name, d0, d1, st, val, ret) ==
  /\ \E out \in AssertOutcomes(st.ok) :
       /\ topo' = IF out = "abort" THEN "abort" ELSE topo
       /\ remLayer' = IF out = "abort" THEN remLayer ELSE st.rl
       /\ cacheLayers' = IF out = "abort" THEN cacheLayers ELSE st.cl
       /\ lastOp' = [op |-> name, d0 |-> d0, d1 |-> d1,
                     val |-> IF out = "abort" THEN Null ELSE val,
                     ret |-> IF out = "abort" THEN 0 ELSE ret]
  /\ kernels' = st.ks
  /\ repeated' = /\ lastOp.op \in CreateMembers
                 /\ kernels # {}
                 /\ Quantity(lastOp.op, lastOp.d0, lastOp.d1)
                      = Quantity(name, d0, d1)
  /\ nops' = nops + 1
  /\ UNCHANGED <<supplied, permanent, remBase>>
  /\ UNCHANGED <<varsP, varsT, varsB, varsF>>

\* Topology::Topology(comm, type, remanent_storage): the supplied storage
\* holds the keys sup; t is what cell_dim(_cell_type) yields in the call of
\* check_storage
Construct(sup, t) ==
  /\ topo = "none"
  /\ \E storage \in {[k \in sup |-> "given"]} :
       IF ~CheckStorage(storage, t)
         THEN /\ topo' = "invalid_argument"
              /\ UNCHANGED <<permanent, remBase>>
         ELSE /\ topo' = "ok"
              /\ remBase' = storage
              /\ permanent' = MakePermanent(storage)
  /\ supplied' = sup
  /\ remLayer' = EmptyMap
  /\ cacheLayers' = <<>>
  /\ lastOp' = [NoOp EXCEPT !.op = "construct"]
  /\ repeated' = FALSE
  /\ kernels' = {}
  /\ UNCHANGED nops
  /\ UNCHANGED <<varsP, varsT, varsB, varsF>>

IndexMap(dim) ==
  /\ Ready
  /\ \E st \in {QIndexMap(remBase, Enter(remLayer, cacheLayers), dim)} :
       Finish("index_map", dim, 0, st, st.res, 0)

Connectivity(d0, d1, discard) ==
  /\ Ready
  /\ \E st \in {QConnectivity(remBase, Enter(remLayer, cacheLayers), d0, d1,
                              discard)} :
       Finish("connectivity", d0, d1, st, st.res, 0)

InteriorFacets(discard) ==
  /\ Ready
  /\ \E st \in {QInteriorFacets(remBase, Enter(remLayer, cacheLayers),
                                discard)} :
       Finish("interior_facets", 0, 0, st, st.res, 0)

GetCellPermutationInfo(discard) ==
  /\ Ready
  /\ \E st \in {QCellPermutations(remBase, Enter(remLayer, cacheLayers),
                                  discard)} :
       Finish("get_cell_permutation_info", 0, 0, st, st.res, 0)

GetFacetPermutations(discard) ==
  /\ Ready
  /\ \E st \in {QFacetPermutations(remBase, Enter(remLayer, cacheLayers),
                                   discard)} :
       Finish("get_facet_permutations", 0, 0, st, st.res, 0)

CreateEntities(dim, n) ==
  /\ Ready
  /\ \E st \in {CreateEntitiesOp(remBase, remLayer, cacheLayers, dim, n)} :
       Finish("create_entities", dim, 0, st, Null, st.ret)

CreateConnectivity(d0, d1, discard) ==
  /\ Ready
  /\ \E st \in {CreateConnectivityOp(remBase, remLayer, cacheLayers, d0, d1,
                                     discard)} :
       Finish("create_connectivity", d0, d1, st, Null, 0)

CreateInteriorFacets(discard) ==
  /\ Ready
  /\ \E st \in {CreateInteriorFacetsOp(remBase, remLayer, cacheLayers,
                                       discard)} :
       Finish("create_interior_facets", 0, 0, st, Null, 0)

CreateEntityPermutations(discard) ==
  /\ Ready
  /\ \E st \in {CreateEntityPermutationsOp(remBase, remLayer, cacheLayers,
                                           discard)} :
       Finish("create_entity_permutations", 0, 0, st, Null, 0)

\* Topology::acquire_cache_lock(force_new_layer), the lock kept by the caller
AcquireCacheLock(force) ==
  /\ Ready
  /\ NumLocks(cacheLayers) < MaxLocks
  /\ Finish("acquire_cache_lock", 0, 0,
            Enter(remLayer, Acquire(cacheLayers, force)), Null, 0)

\* the end of life of a lock the caller holds on layer i
ReleaseLock(i) ==
  /\ Ready
  /\ cacheLayers[i].locks > 0
  /\ Finish("release_lock", i, 0,
            Enter(remLayer, Release(cacheLayers, i)), Null, 0)

\* Topology::discard_remanent_storage(): a new layer for remanent_lock; the
\* lock on the old layer ends and nothing else refers to that layer
DiscardRemanentStorage ==
  /\ Ready
  /\ Finish("discard_remanent_storage", 0, 0,
            Enter(EmptyMap, cacheLayers), Null, 0)

NextS ==
  \/ \E sup \in SUBSET Essentials, t \in CheckDims : Construct(sup, t)
  \/ \E dim \in Dims : IndexMap(dim)
  \/ \E d0 \in Dims, d1 \in Dims, discard \in BOOLEAN :
       Connectivity(d0, d1, discard)
  \/ \E discard \in BOOLEAN : InteriorFacets(discard)
  \/ \E discard \in BOOLEAN : GetCellPermutationInfo(discard)
  \/ \E discard \in BOOLEAN : GetFacetPermutations(discard)
  \/ \E dim \in Dims, n \in EntityCounts : CreateEntities(dim, n)
  \/ \E d0 \in Dims, d1 \in Dims, discard \in BOOLEAN :
       CreateConnectivity(d0, d1, discard)
  \/ \E discard \in BOOLEAN : CreateInteriorFacets(discard)
  \/ \E discard \in BOOLEAN : CreateEntityPermutations(discard)
  \/ \E force \in BOOLEAN : AcquireCacheLock(force)
  \/ \E i \in DOMAIN cacheLayers : ReleaseLock(i)
  \/ DiscardRemanentStorage

\* create_topology is not running: its state stays as entered
InitStore ==
  /\ InitS
  /\ InitFrom(CHOOSE in \in Inputs : in.bad = "none")

SpecStore == InitStore /\ [][NextS]_vars

\* operations followed on a Topology that create_topology has returned
MaxCacheOps == 4

\* the storage create_topology hands to the constructor: the four items
EssentialStorage == [k \in Essentials |-> "given"]

\* the members of a constructed Topology
NextC ==
  \/ \E dim \in Dims : IndexMap(dim)
  \/ \E d0 \in Dims, d1 \in Dims, discard \in BOOLEAN :
       Connectivity(d0, d1, discard)
  \/ \E discard \in BOOLEAN : InteriorFacets(discard)
  \/ \E discard \in BOOLEAN : GetCellPermutationInfo(discard)
  \/ \E discard \in BOOLEAN : GetFacetPermutations(discard)
  \/ \E dim \in Dims, n \in EntityCounts : CreateEntities(dim, n)
  \/ \E d0 \in Dims, d1 \in Dims, discard \in BOOLEAN :
       CreateConnectivity(d0, d1, discard)
  \/ \E discard \in BOOLEAN : CreateInteriorFacets(discard)
  \/ \E discard \in BOOLEAN : CreateEntityPermutations(discard)
  \/ \E force \in BOOLEAN : AcquireCacheLock(force)
  \/ \E i \in DOMAIN cacheLayers : ReleaseLock(i)
  \/ DiscardRemanentStorage

\* the Topology that create_topology returns: constructed from the four
\* items, no member called yet; MaxCacheOps calls are followed
InitCache ==
  /\ InitFrom(CHOOSE in \in Inputs : in.bad = "none")
  /\ InitT
  /\ InitB
  /\ InitF
  /\ topo = "ok"
  /\ supplied = Essentials
  /\ remBase = EssentialStorage
  /\ permanent = MakePermanent(EssentialStorage)
  /\ remLayer = EmptyMap
  /\ cacheLayers = <<>>
  /\ lastOp = [NoOp EXCEPT !.op = "construct"]
  /\ repeated = FALSE
  /\ kernels = {}
  /\ nops = MaxOps - MaxCacheOps

SpecCache == InitCache /\ [][NextC]_vars

(***************************************************************************)
(* Part II.  Claims                                                        *)
(***************************************************************************)
\* what the query API sees for key k
View(k) == CacheGet(remBase, remLayer, cacheLayers, k)
\* what remanent_storage holds for key k, before and after a step
Held(k) == RemanentGet(remBase, remLayer, k)
HeldNext(k) == RemanentGet(remBase, remLayer', k)
\* the step is a call of the member 'name' with dimensions d0, d1
Call(name, d0, d1) ==
  /\ nops' = nops + 1
  /\ lastOp'.op = name /\ lastOp'.d0 = d0 /\ lastOp'.d1 = d1

\* the call returned: no assertion stopped it
Completed(name, d0, d1) == Call(name, d0, d1) /\ topo' = "ok"

\* C7: once a Topology is constructed, whatever members are called, the
\* four essential items are present, are the supplied ones, and the queries
\* index_map and connectivity return them.
C7_EssentialsKept ==
  topo \in {"ok", "abort"} =>
    /\ \A k \in Essentials : View(k) = "given"
    /\ (lastOp.op = "index_map" /\ IndexMapKey(lastOp.d0) \in Essentials)
         => topo = "ok" /\ lastOp.val = "given"
    /\ (lastOp.op = "connectivity"
          /\ ConnKey(lastOp.d0, lastOp.d1) \in Essentials)
         => topo = "ok" /\ lastOp.val = "given"

\* C8: construction throws invalid_argument exactly when the supplied
\* storage lacks one of the four essential items, and yields an object
\* exactly when all four are present.
C8_ConstructionChecked ==
  topo # "none" =>
    (Essentials \subseteq supplied <=> topo # "invalid_argument")

Serving(k) ==
  IF k[1] = "connectivity" THEN {"create_connectivity", "connectivity"}
  ELSE IF k = InteriorFacetsKey
    THEN {"create_interior_facets", "interior_facets"}
  ELSE IF k = CellPermKey
    THEN {"create_entity_permutations", "get_cell_permutation_info"}
  ELSE IF k = FacetPermKey THEN {"get_facet_permutations"}
  ELSE {}

Queries ==
  {"connectivity", "interior_facets", "get_cell_permutation_info",
   "get_facet_permutations"}

CreatedKeys ==
  {ConnKey(d0, d1) : d0 \in Dims, d1 \in Dims}
    \cup {InteriorFacetsKey, CellPermKey, FacetPermKey}

\* C10: a create_connectivity, create_interior_facets or
\* create_entity_permutations call that completes leaves its quantity in
\* remanent storage,
\* and while remanent storage holds a quantity every call of its create_*
\* member or query invokes no kernel, keeps the stored data and (a query)
\* returns them.
C10_CreatedDataServed ==
  [][/\ \A d0 \in Dims, d1 \in Dims :
          Completed("create_connectivity", d0, d1)
            => HeldNext(ConnKey(d0, d1)) # Null
     /\ Completed("create_interior_facets", 0, 0)
          => HeldNext(InteriorFacetsKey) # Null
     /\ Completed("create_entity_permutations", 0, 0)
          => HeldNext(CellPermKey) # Null /\ HeldNext(FacetPermKey) # Null
     /\ \A k \in CreatedKeys :
          (/\ Held(k) # Null
           /\ \E name \in Serving(k) :
                Call(name, IF k[1] = "connectivity" THEN k[2] ELSE 0,
                           IF k[1] = "connectivity" THEN k[3] ELSE 0))
            => /\ kernels' = {}
               /\ HeldNext(k) = Held(k)
               /\ lastOp'.op \in Queries => lastOp'.val = Held(k)]_vars

\* C10 witness: connectivity(d0,d1) has returned, without a kernel, the data
\* that the create_connectivity(d0,d1) call right before it had computed.
C10_Witness ==
  /\ lastOp.op = "connectivity" /\ repeated /\ kernels = {}
  /\ lastOp.val = "kernel"
  /\ Held(ConnKey(lastOp.d0, lastOp.d1)) = "kernel"

\* the key a query returns
QueryKey(op, d0, d1) ==
  IF op = "index_map" THEN IndexMapKey(d0)
  ELSE IF op = "connectivity" THEN ConnKey(d0, d1)
  ELSE IF op = "interior_facets" THEN InteriorFacetsKey
  ELSE IF op = "get_cell_permutation_info" THEN CellPermKey
  ELSE IF op = "get_facet_permutations" THEN FacetPermKey
  ELSE <<"none", 0, 0>>

\* a lock on cache layer i is held before and after the step
LockKept(i) ==
  /\ i \in DOMAIN cacheLayers /\ cacheLayers[i].locks > 0
  /\ i \in DOMAIN cacheLayers' /\ cacheLayers'[i].locks > 0

\* the items queries have computed since the oldest lock on layer i was
\* acquired: those in layer i and in the layers after it
ComputedSince(i) ==
  UNION {DOMAIN cacheLayers[j].data : j \in i .. Len(cacheLayers)}

\* C11: while a lock from acquire_cache_lock is held, every item a query
\* computed during its lifetime stays visible and a repeated query returns
\* it without a kernel, whatever step is taken: discard_remanent_storage,
\* create_*, other locks acquired or released.
C11_LockKeepsComputed ==
  [][\A i \in DOMAIN cacheLayers :
       LockKept(i) =>
         \A k \in ComputedSince(i) :
           /\ CacheGet(remBase, remLayer', cacheLayers', k) # Null
           /\ (nops' = nops + 1
                 /\ QueryKey(lastOp'.op, lastOp'.d0, lastOp'.d1) = k)
                => kernels' = {} /\ lastOp'.val # Null]_vars

QueryNames ==
  {"index_map", "connectivity", "interior_facets",
   "get_cell_permutation_info", "get_facet_permutations"}

\* the step is a query for an item the query API does not see
QueryOfMissing ==
  /\ nops' = nops + 1
  /\ lastOp'.op \in QueryNames
  /\ View(QueryKey(lastOp'.op, lastOp'.d0, lastOp'.d1)) = Null

\* C12: with no cache lock held, a query for an item that is not stored
\* leaves the cache and remanent storage holding what they held before:
\* whatever it computes (no value comes without a kernel) is then gone.
C12_QueryLeavesNoTrace ==
  [][(cacheLayers = <<>> /\ QueryOfMissing) =>
       /\ cacheLayers' = <<>>
       /\ remLayer' = remLayer /\ remBase' = remBase
       /\ lastOp'.val # Null => kernels' # {}]_vars

\* C12 witness: connectivity(d0,d1) has computed and returned an item with
\* no lock held, and the item is stored nowhere.
C12_Witness ==
  /\ lastOp.op = "connectivity" /\ lastOp.val = "kernel"
  /\ "compute_connectivity" \in kernels
  /\ cacheLayers = <<>>
  /\ View(ConnKey(lastOp.d0, lastOp.d1)) = Null

\* the locks alive on each layer of the cache
LayerLocks(cl) == [i \in DOMAIN cl |-> cl[i].locks]

LockSteps == {"acquire_cache_lock", "release_lock"}

\* C13: a cache layer lives exactly while a lock or a later layer refers to
\* it.  Every call other than acquire/release leaves the layers and their
\* locks as they were; releasing the last lock of the most recent layer
\* reclaims it; no layer is left without a lock or a later layer, so with
\* no lock alive the cache holds nothing; queries, lock steps and
\* discard_remanent_storage add no item to remanent storage.
C13_LayersReclaimed ==
  [][nops' = nops + 1 =>
       /\ lastOp'.op \notin LockSteps
            => LayerLocks(cacheLayers') = LayerLocks(cacheLayers)
       /\ lastOp'.op = "acquire_cache_lock"
            => NumLocks(cacheLayers') = NumLocks(cacheLayers) + 1
       /\ lastOp'.op = "release_lock"
            => /\ NumLocks(cacheLayers') = NumLocks(cacheLayers) - 1
               /\ (lastOp'.d0 = Len(cacheLayers)
                     /\ cacheLayers[lastOp'.d0].locks = 1)
                    => Len(cacheLayers') < Len(cacheLayers)
       /\ cacheLayers' # <<>>
            => cacheLayers'[Len(cacheLayers')].locks > 0
       /\ lastOp'.op \in QueryNames \cup LockSteps
                           \cup {"discard_remanent_storage"}
            => DOMAIN remLayer' \subseteq DOMAIN remLayer]_vars

\* C13 witness: the last lock has been released after other calls and
\* neither the cache nor the layer of remanent_lock holds anything.
C13_Witness ==
  /\ lastOp.op = "release_lock" /\ nops - (MaxOps - MaxCacheOps) >= 3
  /\ cacheLayers = <<>> /\ remLayer = EmptyMap

\* a layer holds both permutation tables or neither
PermsTogether(layer) ==
  CellPermKey \in DOMAIN layer <=> FacetPermKey \in DOMAIN layer

PermutationMembers ==
  {"get_cell_permutation_info", "get_facet_permutations",
   "create_entity_permutations"}

\* C16: in every state the supplied storage, the layer of remanent_lock and
\* every cache layer hold the cell permutation info exactly when they hold
\* the facet permutations, and no permutation member stops on an assertion.
C16_PermutationsTogether ==
  /\ PermsTogether(remBase) /\ PermsTogether(remLayer)
  /\ \A i \in DOMAIN cacheLayers : PermsTogether(cacheLayers[i].data)
  /\ lastOp.op \in PermutationMembers => topo = "ok"

\* C16 witness: both tables are held by a cache layer and, after
\* create_entity_permutations, by remanent storage.
C16_Witness ==
  /\ lastOp.op = "create_entity_permutations"
  /\ {CellPermKey, FacetPermKey} \subseteq DOMAIN remLayer
  /\ \E i \in DOMAIN cacheLayers :
       {CellPermKey, FacetPermKey} \subseteq DOMAIN cacheLayers[i].data

\* no member has been called on the Topology since its construction
Fresh == topo = "ok" /\ lastOp.op = "construct"

\* C17: on a freshly constructed Topology holding only the four essential
\* items, index_map(0) and index_map(tdim) return the supplied map, run no
\* kernel and do not fail.
C17_EssentialIndexMaps ==
  [][\A d \in {0, TDim} :
       (Fresh /\ supplied = Essentials /\ Call("index_map", d, 0)) =>
         /\ topo' = "ok"
         /\ lastOp'.val = "given"
         /\ kernels' = {}]_vars

(***************************************************************************)
(* Part III.  Threads calling members of one Topology.  The members take   *)
(* no mutex ("TODO: lock for thread safety"), so a thread can be           *)
(* interleaved with others between any two statements of a query.  The     *)
(* storage's own acquire_cache_lock is taken as one step.                  *)
(***************************************************************************)
\* members one thread enters
MaxRuns == 2

\* the dimension whose index map the threads query
QueryDim == 1

ThrStep(t, pcNext) == thrPc' = [thrPc EXCEPT ![t] = pcNext]

ObjectUnchanged ==
  UNCHANGED <<topo, supplied, permanent, remBase, remLayer, lastOp, repeated,
              kernels, nops, varsP, varsB, varsF>>

\* index_map: 'auto lock = acquire_cache_lock();'
ThrQueryLock(t) ==
  /\ thrPc[t] = "idle" /\ thrRuns[t] < MaxRuns
  /\ cacheLayers' = Acquire(cacheLayers, FALSE)
  /\ thrLock' = [thrLock EXCEPT ![t] = Len(cacheLayers')]
  /\ thrWrote' = [thrWrote EXCEPT ![t] = 0]
  /\ thrRes' = [thrRes EXCEPT ![t] = "none"]
  /\ thrRuns' = [thrRuns EXCEPT ![t] = @ + 1]
  /\ ThrStep(t, "locked")
  /\ ObjectUnchanged

\* index_map: 'if (auto res = cache.index_map(dim); res) return res;'
ThrLookup(t) ==
  /\ thrPc[t] = "locked"
  /\ \E found \in {CacheGet(remBase, remLayer, cacheLayers,
                             IndexMapKey(QueryDim))} :
       IF found # Null
         THEN thrRes' = [thrRes EXCEPT ![t] = found] /\ ThrStep(t, "return")
         ELSE UNCHANGED thrRes /\ ThrStep(t, "scratch")
  /\ UNCHANGED <<cacheLayers, thrLock, thrWrote, thrRuns>>
  /\ ObjectUnchanged

\* index_map: 'scratch.create_entities(dim); cache.read_from(scratch.cache);'
\* the data go to the most recent layer of the cache
ThrReadFrom(t) ==
  /\ thrPc[t] = "scratch"
  /\ cacheLayers' =
       CacheWrite(cacheLayers, [k \in EntityKeys(QueryDim) |-> "kernel"])
  /\ thrWrote' = [thrWrote EXCEPT ![t] = Len(cacheLayers)]
  /\ ThrStep(t, "wrote")
  /\ UNCHANGED <<thrLock, thrRes, thrRuns>>
  /\ ObjectUnchanged

\* index_map: 'return cache.index_map(dim);'
ThrReturn(t) ==
  /\ thrPc[t] = "wrote"
  /\ thrRes' = [thrRes EXCEPT ![t] =
                  CacheGet(remBase, remLayer, cacheLayers,
                           IndexMapKey(QueryDim))]
  /\ ThrStep(t, "return")
  /\ UNCHANGED <<cacheLayers, thrLock, thrWrote, thrRuns>>
  /\ ObjectUnchanged

\* a caller takes a lock of its own: acquire_cache_lock(force_new_layer)
ThrHold(t, force) ==
  /\ thrPc[t] = "idle" /\ thrRuns[t] < MaxRuns
  /\ cacheLayers' = Acquire(cacheLayers, force)
  /\ thrLock' = [thrLock EXCEPT ![t] = Len(cacheLayers')]
  /\ thrWrote' = [thrWrote EXCEPT ![t] = 0]
  /\ thrRes' = [thrRes EXCEPT ![t] = "none"]
  /\ thrRuns' = [thrRuns EXCEPT ![t] = @ + 1]
  /\ ThrStep(t, "holding")
  /\ ObjectUnchanged

\* the thread's lock ends: at the return of index_map, or when the caller
\* drops the lock it took
ThrRelease(t) ==
  /\ thrPc[t] \in {"return", "holding"}
  /\ cacheLayers' = Release(cacheLayers, thrLock[t])
  /\ thrLock' = [thrLock EXCEPT ![t] = 0]
  /\ thrWrote' = [thrWrote EXCEPT ![t] = 0]
  /\ ThrStep(t, "idle")
  /\ UNCHANGED <<thrRes, thrRuns>>
  /\ ObjectUnchanged

NextT ==
  \E t \in Threads :
    \/ ThrQueryLock(t)
    \/ ThrLookup(t)
    \/ ThrReadFrom(t)
    \/ ThrReturn(t)
    \/ \E force \in BOOLEAN : ThrHold(t, force)
    \/ ThrRelease(t)

\* a constructed Topology shared by the threads
SpecThreads == InitCache /\ [][NextT]_vars

\* C15: whatever the interleaving, a thread that holds a lock writes only
\* into the layer its lock keeps alive, the data it wrote under its lock are
\* there while the lock lives (its query returns them), and a lock is never
\* on a reclaimed layer.
C15_ThreadsKeepTheirLayer ==
  \A t \in Threads :
    /\ thrWrote[t] # 0 => thrWrote[t] = thrLock[t]
    /\ (thrWrote[t] # 0 /\ thrLock[t] # 0) =>
         CacheGet(remBase, remLayer, cacheLayers, IndexMapKey(QueryDim))
           # Null
    /\ (thrPc[t] = "return") => thrRes[t] # Null
    /\ thrLock[t] # 0 =>
         /\ thrLock[t] \in DOMAIN cacheLayers
         /\ cacheLayers[thrLock[t]].locks > 0

(***************************************************************************)
(* Part IV.  on_boundary(dim) on the data of a mesh.  Entities are sets of *)
(* vertices; the entities of one dimension are numbered 1..n in the order  *)
(* the entity kernel produced them.                                        *)
(***************************************************************************)
\* cells of a mesh
MaxMeshCells == 2

\* topological dimensions: triangles and tetrahedra
BoundaryDims == {2, 3}

\* a strip of n cells, cell i on the vertices i .. i + tdim
StripMesh(n, tdim) == {i .. (i + tdim) : i \in 1 .. n}

\* desc: the order in which the kernels number entities; held: the
\* interior-facet markers are stored where they outlive a query (remanent
\* storage, or a cache layer under a lock of the caller)
BoundaryInputs ==
  {[tdim |-> td, cells |-> StripMesh(n, td), desc |-> d, held |-> h] :
     td \in BoundaryDims, n \in 1 .. MaxMeshCells,
     d \in BOOLEAN, h \in BOOLEAN}

MeshVertices(b) == UNION b.cells

\* the entities of dimension d: the (d+1)-subsets of the cells
Entities(b, d) ==
  {e \in SUBSET MeshVertices(b) :
     Cardinality(e) = d + 1 /\ \E c \in b.cells : e \subseteq c}

Code(e) == LET vs == SortSet(e) IN SumSeq([i \in 1 .. Len(vs) |-> 2 ^ vs[i]])

\* the entities of dimension d in the order of their numbers
EntitySeq(b, d) ==
  LET codes == SortSet({Code(e) : e \in Entities(b, d)})
      order == IF b.desc THEN Reverse(codes) ELSE codes
  IN  [i \in 1 .. Len(order) |->
         CHOOSE e \in Entities(b, d) : Code(e) = order[i]]

\* index_map(d)->size_local() + index_map(d)->num_ghosts()
NumEntities(b, d) == Cardinality(Entities(b, d))

\* compute_interior_facets: a facet of two cells is interior
InteriorMarkers(b) ==
  LET fs == EntitySeq(b, b.tdim - 1)
  IN  [i \in 1 .. Len(fs) |->
         Cardinality({c \in b.cells : fs[i] \subseteq c}) = 2]

\* connectivity(tdim-1, dim): the entities of dimension dim of each facet
FacetEntities(b, dim) ==
  LET fs == EntitySeq(b, b.tdim - 1)
      es == EntitySeq(b, dim)
  IN  [i \in 1 .. Len(fs) |-> {j \in 1 .. Len(es) : es[j] \subseteq fs[i]}]

\* 'auto facets = interior_facets(...)': a copy made through the reference
\* interior_facets returns; when nothing keeps the markers alive the
\* reference is to a reclaimed layer and the copy is arbitrary
FacetsRead(b) ==
  IF b.held THEN {InteriorMarkers(b)}
  ELSE [1 .. NumEntities(b, b.tdim - 1) -> BOOLEAN]

\* 'num_facets = index_map(dim - 1)->size_local() + ...->num_ghosts()':
\* for dim = 0 there is no such index map and the value is arbitrary
FacetCounts(b, dim) ==
  IF dim >= 1 THEN {NumEntities(b, dim - 1)}
  ELSE 0 .. (NumEntities(b, b.tdim - 1) + 1)

Result(dim, status, marker, queried) ==
  [dim |-> dim, status |-> status, marker |-> marker,
   requested |-> IF queried THEN {dim, dim - 1} ELSE {},
   queried |-> queried]

\* the body of on_boundary once num_facets and facets are read
MarkerFor(b, dim, nf, facets) ==
  LET n  == NumEntities(b, dim)
      fe == FacetEntities(b, dim)
  IN  IF nf > Len(facets) \/ (dim = b.tdim - 1 /\ nf > n)
        THEN {Result(dim, st, <<>>, TRUE) : st \in {"abort", "undefined"}}
      ELSE IF dim = b.tdim - 1
        THEN {Result(dim, "ok",
                     [i \in 1 .. n |-> IF i <= nf THEN ~facets[i] ELSE FALSE],
                     TRUE)}
      ELSE {Result(dim, "ok",
                   [e \in 1 .. n |->
                      \E i \in 1 .. nf : ~facets[i] /\ e \in fe[i]],
                   TRUE)}

\* Topology::on_boundary(dim, discard_intermediate): every outcome
OnBoundaryResults(b, dim) ==
  IF dim >= b.tdim \/ dim < 0
    THEN {Result(dim, "runtime_error", <<>>, FALSE)}
  ELSE (IF dim = 0 THEN {Result(dim, "crash", <<>>, TRUE)} ELSE {})
         \cup UNION {MarkerFor(b, dim, nf, facets) :
                       nf \in FacetCounts(b, dim), facets \in FacetsRead(b)}

CallDims == -1 .. 3

OnBoundary(dim) ==
  /\ bOut.status = "none"
  /\ \E r \in OnBoundaryResults(bIn, dim) : bOut' = r
  /\ UNCHANGED <<bIn, varsP, varsT, varsF>>
  /\ UNCHANGED <<topo, supplied, permanent, remBase, remLayer, cacheLayers,
                 lastOp, repeated, kernels, nops>>

NextB == \E dim \in CallDims : OnBoundary(dim)

\* on_boundary is called once on a constructed Topology of each mesh
InitBoundary ==
  /\ InitFrom(CHOOSE in \in Inputs : in.bad = "none")
  /\ InitT
  /\ topo = "ok"
  /\ supplied = Essentials
  /\ remBase = EssentialStorage
  /\ permanent = MakePermanent(EssentialStorage)
  /\ remLayer = EmptyMap
  /\ cacheLayers = <<>>
  /\ lastOp = [NoOp EXCEPT !.op = "construct"]
  /\ repeated = FALSE
  /\ kernels = {}
  /\ nops = 0
  /\ InitF
  /\ bIn \in BoundaryInputs
  /\ bOut = NoResult

SpecBoundary == InitBoundary /\ [][NextB]_vars

Called == bOut.status # "none"
OutOfRange == bOut.dim >= bIn.tdim \/ bOut.dim < 0

\* C18: on_boundary(dim) fails with the invalid-dimension error exactly
\* when dim >= tdim or dim < 0, then without any query; for 0 <= dim < tdim
\* it returns a marker vector with one entry per entity of dimension dim
\* and requests no index map of a dimension outside 0..tdim.
C18_OnBoundaryDomain ==
  Called =>
    /\ bOut.status = "runtime_error" <=> OutOfRange
    /\ OutOfRange => ~bOut.queried /\ bOut.requested = {}
    /\ ~OutOfRange =>
         /\ bOut.status = "ok"
         /\ Len(bOut.marker) = NumEntities(bIn, bOut.dim)
         /\ bOut.requested \subseteq 0 .. bIn.tdim

\* C19: on_boundary(tdim-1) returns, for every facet i, the negation of
\* the interior-facet marker of i.
C19_FacetsNegated ==
  (Called /\ bOut.dim = bIn.tdim - 1) =>
    /\ bOut.status = "ok"
    /\ \A i \in DOMAIN InteriorMarkers(bIn) :
         i \in DOMAIN bOut.marker
           /\ bOut.marker[i] = ~InteriorMarkers(bIn)[i]

\* C20: for 0 <= dim < tdim-1, on_boundary(dim) returns one entry per
\* entity of dimension dim, true exactly for the entities of a facet whose
\* interior-facet marker is false, all facets of the mesh counted.
C20_IncidentToBoundaryFacet ==
  (Called /\ bOut.dim >= 0 /\ bOut.dim < bIn.tdim - 1) =>
    /\ bOut.status = "ok"
    /\ Len(bOut.marker) = NumEntities(bIn, bOut.dim)
    /\ \A e \in DOMAIN bOut.marker :
         bOut.marker[e] <=>
           \E f \in DOMAIN InteriorMarkers(bIn) :
             ~InteriorMarkers(bIn)[f] /\ e \in FacetEntities(bIn, bOut.dim)[f]

(***************************************************************************)
(* Part V.  hash() on Topology objects, constructed from any storage the   *)
(* constructor lets through                                                *)
(***************************************************************************)
\* AdjacencyList::hash(): a function of the connectivity data alone
HashOf(conn) == IF conn = "given" THEN "hash_given" ELSE "hash_kernel"

\* Topology::hash(): connectivity(dim(), 0) is queried for the test and
\* once more for the value
QHash(rb, st) ==
  LET s1 == QConnectivity(rb, st, TDim, 0, FALSE)
      s2 == QConnectivity(rb, s1, TDim, 0, FALSE)
  IN  IF s1.res = Null THEN [s1 EXCEPT !.res = "runtime_error"]
      ELSE [s2 EXCEPT !.res = HashOf(s2.res)]

Hash ==
  /\ Ready
  /\ \E st \in {QHash(remBase, Enter(remLayer, cacheLayers))} :
       Finish("hash", 0, 0, st, st.res, 0)

NextH ==
  \/ \E sup \in SUBSET Essentials, t \in CheckDims : Construct(sup, t)
  \/ \E force \in BOOLEAN : AcquireCacheLock(force)
  \/ \E i \in DOMAIN cacheLayers : ReleaseLock(i)
  \/ DiscardRemanentStorage
  \/ Hash

SpecHash == InitStore /\ [][NextH]_vars

\* C21: hash() returns the hash of the (tdim,0) connectivity and fails with
\* the 'not computed' error exactly when that connectivity is absent; the
\* call leaves the cache and remanent storage as they were.
C21_HashOfCellVertices ==
  [][Call("hash", 0, 0) =>
       /\ lastOp'.val = "runtime_error" <=> View(ConnKey(TDim, 0)) = Null
       /\ View(ConnKey(TDim, 0)) # Null =>
            lastOp'.val = HashOf(View(ConnKey(TDim, 0)))
       /\ remLayer' = remLayer
       /\ cacheLayers' = cacheLayers]_vars

(***************************************************************************)
(* Part II.  The queries on a Topology returned by create_topology,        *)
(* whatever was locked or created before                                   *)
(***************************************************************************)
\* the value a query for key k yields: the supplied item for the essential
\* data, the result of the kernels for derived data
ExpectedValue(k) == IF k \in Essentials THEN "given" ELSE "kernel"

\* the last member called was a query
Queried == lastOp.op \in QueryNames

\* C22: a query returns the same value whether or not a cache lock is
\* held, whether or not a create_* member stored data before, and for either
\* value of discard_intermediate; it never ends in an error.
C22_QueriesIndependentOfCaching ==
  Queried =>
    /\ topo = "ok"
    /\ lastOp.val = ExpectedValue(QueryKey(lastOp.op, lastOp.d0, lastOp.d1))

(***************************************************************************)
(* Part I.  Further claims on create_topology                              *)
(***************************************************************************)
\* the indices rank p asks about: its unknown_indices
Asked(p) == GhostBoundaryVertices(cells[p], ghostOwners[p])
\* the ranks that ask about index v
Askers(v) == {q \in Ranks : v \in Asked(q)}
\* compute_index_sharing has returned on rank p
SharingKnown(p) == pc[p] # "error" /\ step[p] >= 4

\* C23: compute_index_sharing returns to every rank, for every index the
\* rank asked about, exactly the ranks that asked about it, in ascending
\* order (the lowest, the owner, first); every asker of an index routes it
\* to the same arbitration rank.
C23_SharingIsAskers ==
  \A p \in Ranks :
    SharingKnown(p) =>
      /\ DOMAIN globalToProcs[p] = Asked(p)
      /\ \A v \in Asked(p) :
           /\ globalToProcs[p][v] = SortSet(Askers(v))
           /\ p \in Range(globalToProcs[p][v])
           /\ \A q \in Askers(v) :
                \E r \in Ranks :
                  v \in Range(sendIndices[p][r]) \cap Range(sendIndices[q][r])

\* C23 witness: sharing lists have been returned, one of them to three
\* askers of one index
C23_Witness ==
  \E p \in Ranks :
    /\ SharingKnown(p)
    /\ \E v \in Asked(p) : Len(globalToProcs[p][v]) = 3

\* the reduction of compute_index_sharing has completed on some rank
Reduced == \E p \in Ranks : pc[p] # "error" /\ step[p] >= 2

\* C24: the estimate of the global index space that picks the arbitration
\* rank of an index is 1 + the maximum, over all ranks, of the largest
\* index each rank asks about.
C24_GlobalSpaceIsMax ==
  Reduced =>
    /\ \A q \in Ranks : maxIndex[q] = Max(Asked(q))
    /\ GlobalSpace(maxIndex) = 1 + Max({maxIndex[q] : q \in Ranks})

(***************************************************************************)
(* Part I.  The checks after ghost resolution round 2, applied to the      *)
(* states round 2 can leave on one rank                                    *)
(***************************************************************************)
\* ghost slots of the rank
MaxGhostSlots == 3
\* owned vertices of the rank
MaxOwned == 2

\* the values of a ghost slot: unresolved, or a new global index
SlotValues == {-1} \cup (0 .. 2)

\* the slots filled: every assignment of a local index fills one slot
Filled(gv) == Cardinality({i \in DOMAIN gv : gv[i] # -1})

\* after round 2: nlocal, nghosts, ghost_vertices and the counter c, which
\* has advanced once per slot filled
CheckInputs ==
  {[fn |-> "final_checks", nlocal |-> nl, nghosts |-> Len(gv), gv |-> gv,
    c |-> nl + Filled(gv)] :
     nl \in 0 .. MaxOwned,
     gv \in UNION {[1 .. n -> SlotValues] : n \in 0 .. MaxGhostSlots}}

\* 'assert(c = (nghosts + nlocal)); for (v : ghost_vertices)
\* assert(v != -1);' with assertions compiled in (the first one assigns c
\* and fails when the sum is 0) and with NDEBUG (nothing is evaluated)
FinalChecks(in) ==
  {[fn |-> "final_checks",
    out |-> IF in.nghosts + in.nlocal = 0 \/ -1 \in Range(in.gv)
              THEN "abort" ELSE "done",
    c |-> in.nghosts + in.nlocal],
   [fn |-> "final_checks", out |-> "done", c |-> in.c]}

ApplyFinalChecks ==
  /\ fnIn.fn = "final_checks" /\ fnOut = NoArgs
  /\ fnOut' \in FinalChecks(fnIn)
  /\ UNCHANGED <<fnIn, varsP, varsT, varsB>>
  /\ UNCHANGED <<topo, supplied, permanent, remBase, remLayer, cacheLayers,
                 lastOp, repeated, kernels, nops>>

NextF == ApplyFinalChecks

InitChecks ==
  /\ InitFrom(CHOOSE in \in Inputs : in.bad = "none")
  /\ InitT
  /\ InitB
  /\ topo = "none"
  /\ supplied = {}
  /\ permanent = EmptyMap
  /\ remBase = EmptyMap
  /\ remLayer = EmptyMap
  /\ cacheLayers = <<>>
  /\ lastOp = NoOp
  /\ repeated = FALSE
  /\ kernels = {}
  /\ nops = 0
  /\ fnIn \in CheckInputs
  /\ fnOut = NoArgs

SpecChecks == InitChecks /\ [][NextF]_vars

\* the assigned local indices of rank p
Assigned(p) == Cardinality({v \in DOMAIN g2l[p] : g2l[p][v] # -1})

\* C25 (the protocol): on every rank that returns a topology the assigned
\* local indices number nlocal + nghosts and no ghost slot holds -1.
C25_GhostsResolved ==
  \A p \in Ranks :
    pc[p] = "done" =>
      /\ -1 \notin Range(ghostVertices[p])
      /\ Assigned(p) = nlocal[p] + nghosts[p]

\* C25: the condition is checked: when a ghost slot is left unresolved or
\* the counter differs from nlocal + nghosts, the checks after round 2 end
\* the run instead of letting the topology be returned.
C25_ChecksAreFatal ==
  (fnOut # NoArgs /\ fnOut.out = "done") =>
    /\ -1 \notin Range(fnIn.gv)
    /\ fnIn.c = fnIn.nlocal + fnIn.nghosts

\* rank p has built its neighbour list
NeighboursKnown(p) == pc[p] # "error" /\ step[p] >= 5

\* C26: the neighbour relation is symmetric: whenever rank q is in the
\* neighbour list of rank p, rank p is in the neighbour list of rank q.
C26_NeighboursSymmetric ==
  \A p \in Ranks, q \in Ranks :
    (NeighboursKnown(p) /\ NeighboursKnown(q)) =>
      (q \in Range(neighbours[p]) <=> p \in Range(neighbours[q]))

\* C26 witness: two ranks have built their lists and each names the other
C26_Witness ==
  \E p \in Ranks, q \in Ranks :
    /\ p # q /\ NeighboursKnown(p) /\ NeighboursKnown(q)
    /\ q \in Range(neighbours[p]) /\ p \in Range(neighbours[q])

\* rank p has unpacked the pairs of round 1
Round1Done(p) == pc[p] # "error" /\ step[p] >= 6
\* rank p is about to unpack the pairs of round 1
Round1Arrived(p) ==
  /\ pc[p] = "run" /\ step[p] = 5
  /\ \A q \in Range(neighbours[p]) : Posted(q, 5)
\* the input indices of the pairs rank p receives in round 1
Round1Keys(p) ==
  LET pairs == RecvPairs(sendPairs1, neighbours, p)
  IN  [i \in 1 .. (Len(pairs) \div 2) |-> pairs[2 * i - 1]]

\* C27: after round 1 every boundary vertex the rank does not own has a
\* resolved ghost slot holding the owner's global index; every pair
\* received in round 1 names a vertex known locally and still unnumbered,
\* none twice, and no assertion on receipt fails.
C27_Round1Resolves ==
  \A p \in Ranks :
    /\ Round1Done(p) =>
         \A v \in Asked(p) :
           globalToProcs[p][v][1] # p =>
             /\ g2l[p][v] >= nlocal[p]
             /\ LET o == globalToProcs[p][v][1]
                IN  ghostVertices[p][g2l[p][v] - nlocal[p] + 1]
                      = g2l[o][v] + globalOffset[o]
    /\ Round1Arrived(p) =>
         LET keys == Round1Keys(p)
         IN  \A i \in DOMAIN keys :
               /\ keys[i] \in DOMAIN g2l[p]
               /\ g2l[p][keys[i]] = -1
               /\ \A j \in DOMAIN keys : keys[j] = keys[i] => j = i
    /\ ~(pc[p] = "abort" /\ step[p] = 5)

\* C27 witness: a rank has unpacked round 1 and holds a boundary vertex of
\* another owner in a ghost slot
C27_Witness ==
  \E p \in Ranks :
    /\ Round1Done(p)
    /\ \E v \in Asked(p) :
         globalToProcs[p][v][1] # p /\ g2l[p][v] >= nlocal[p]

\* rank p has numbered the vertices it owns
Numbered(p) == pc[p] # "error" /\ step[p] >= 4
\* the vertices of rank p that appear in its owned cells only
LocalOnly(p) == LocalVertexSet(cells[p], ghostOwners[p])
\* the boundary vertices arbitration gave to rank p
OwnedShared(p) == {v \in Asked(p) : globalToProcs[p][v][1] = p}
\* the local indices rank p gave to the vertices vs
LocalIndices(p, vs) == {g2l[p][v] : v \in vs}

\* C28: on each rank the vertices of owned cells only are numbered first,
\* then the boundary vertices the rank owns, together exactly [0, nlocal);
\* on return every other vertex has an index in [nlocal, nlocal + nghosts)
\* and every index of [0, nlocal + nghosts) is used exactly once.
C28_LocalNumbering ==
  \A p \in Ranks :
    /\ Numbered(p) =>
         /\ LocalIndices(p, LocalOnly(p))
              = 0 .. (Cardinality(LocalOnly(p)) - 1)
         /\ LocalIndices(p, OwnedShared(p))
              = Cardinality(LocalOnly(p)) .. (nlocal[p] - 1)
         /\ nlocal[p]
              = Cardinality(LocalOnly(p)) + Cardinality(OwnedShared(p))
    /\ pc[p] = "done" =>
         /\ LocalIndices(p, DOMAIN g2l[p] \ (LocalOnly(p) \cup OwnedShared(p)))
              = nlocal[p] .. (nlocal[p] + nghosts[p] - 1)
         /\ LocalIndices(p, DOMAIN g2l[p])
              = 0 .. (nlocal[p] + nghosts[p] - 1)
         /\ \A v \in DOMAIN g2l[p], w \in DOMAIN g2l[p] :
              g2l[p][v] = g2l[p][w] => v = w

\* C28 witness: a rank has returned with vertices of all three kinds
C28_Witness ==
  \E p \in Ranks :
    /\ pc[p] = "done"
    /\ LocalOnly(p) # {} /\ OwnedShared(p) # {} /\ nghosts[p] > 0

\* the ranks rank p addresses a pair to in round 2
Round2Targets(p) ==
  LET fwd == FwdSharedVertices(cells, origIndex, ghostOwners, p)
  IN  UNION {fwd[v] : v \in DOMAIN fwd}

\* C30: every rank a pair of round 2 is addressed to, i.e. every rank that
\* holds one of this rank's owned cells as a ghost, is in this rank's
\* neighbour list: no pair goes through a slot that was never registered.
C30_Round2TargetsAreNeighbours ==
  \A p \in Ranks :
    NeighboursKnown(p) =>
      /\ Round2Targets(p) \subseteq Range(neighbours[p])
      /\ \A q \in Round2Targets(p) :
           neighbours[p][ProcToNeighbours(neighbours[p], q)] = q

\* C30 witness: a rank has sent the pairs of round 2 to two other ranks
C30_Witness ==
  \E p \in Ranks :
    /\ pc[p] # "error" /\ step[p] >= 6
    /\ Cardinality(Round2Targets(p)) = 2
    /\ \E np \in DOMAIN sendPairs2[p] : sendPairs2[p][np] # <<>>

\* rank p has built and posted the pairs of round 2
Round2Sent(p) == pc[p] # "error" /\ step[p] >= 6
\* the vertices rank p forwards in round 2
Forwarded(p) == DOMAIN FwdSharedVertices(cells, origIndex, ghostOwners, p)
\* the new global indices carried by the pairs rank p posted in round 2
Round2Values(p) ==
  UNION {{sendPairs2[p][np][2 * i] :
            i \in 1 .. (Len(sendPairs2[p][np]) \div 2)} :
         np \in DOMAIN sendPairs2[p]}

\* C31: when round 2 starts every vertex of an owned cell that another
\* rank holds as a ghost has a local index (not -1) and a known new global
\* index (an owned one, or a ghost slot filled in round 1): the assertions
\* made before forwarding never fail and no pair of round 2 carries -1.
C31_ForwardedAreResolved ==
  \A p \in Ranks :
    /\ Round2Sent(p) =>
         /\ \A v \in Forwarded(p) :
              /\ v \in DOMAIN g2l[p]
              /\ g2l[p][v] \in 0 .. (nlocal[p] + nghosts[p] - 1)
              /\ KnownGlobal(g2l[p], nlocal[p], globalOffset[p],
                             ghostVertices[p], v) >= 0
         /\ \A x \in Round2Values(p) : x >= 0
    /\ (pc[p] = "abort" => step[p] # 5)

\* C31 witness: a rank has posted round 2 and one of the vertices it
\* forwards is a ghost whose index it learned in round 1
C31_Witness ==
  \E p \in Ranks :
    /\ Round2Sent(p)
    /\ \E v \in Forwarded(p) : g2l[p][v] >= nlocal[p]
    /\ Round2Values(p) # {}

(***************************************************************************)
(* Part I.  The collective operations of create_topology, rank by rank,    *)
(* for every distribution of the cells (ranks without ghost cells          *)
(* included).  step[p] counts the collectives rank p has entered; every    *)
(* operation is taken to involve all ranks of the communicator.            *)
(***************************************************************************)
\* before the test of the ghost count: compute_ghost_indices(comm, ...) and
\* the IndexMap of the cells
PreambleOps == <<"compute_ghost_indices", "IndexMap">>

\* 'if (cell_ghost_indices.size() > 0)': the collectives up to the return
GhostPathOps ==
  <<"MPI_Allreduce", "all_to_all", "all_to_all", "global_offset",
    "MPI_Dist_graph_create_adjacent", "neighbor_all_to_all",
    "neighbor_all_to_all", "MPI_Comm_free", "IndexMap">>

\* no ghost cells: the IndexMap of the local vertices, then
\* create_distributed_adjacency_list(comm, ...)
LocalPathOps == <<"IndexMap", "create_distributed_adjacency_list">>

\* the collectives rank p calls, in program order
Collectives(p) ==
  PreambleOps \o (IF Len(ghostOwners[p]) > 0 THEN GhostPathOps
                                              ELSE LocalPathOps)

\* every distribution of the cells over the ranks, well-formed cell lists
MixedInputs ==
  [own : [CellIds -> Ranks], mode : GhostModes, bad : {"none"},
   hashDesc : {FALSE}]

\* the k-th collective has been entered by all ranks
AllEntered(k) == \A q \in Ranks : step[q] >= k
\* the k-th call of every rank is the call of the same operation
SameCall(k) ==
  \A q \in Ranks, r \in Ranks :
    /\ k <= Len(Collectives(q)) /\ k <= Len(Collectives(r))
    /\ Collectives(q)[k] = Collectives(r)[k]
\* some rank has stopped before its k-th collective
NeverEntered(k) ==
  \E q \in Ranks : pc[q] \in {"done", "blocked"} /\ step[q] < k
\* the collective rank p is in has completed (none: nothing to wait for)
Completes(p) ==
  IF step[p] = 0 THEN TRUE ELSE AllEntered(step[p]) /\ SameCall(step[p])

CollectiveUnchanged ==
  /\ UNCHANGED varsS
  /\ UNCHANGED <<inp, cells, origIndex, ghostOwners, maxIndex, sendIndices,
                 sendOwner, globalToProcs, g2l, cnt, nlocal, nghosts,
                 globalOffset, neighbours, sendPairs1, sendPairs2,
                 ghostVertices, localCells>>

\* rank p leaves a collective and enters its next one
EnterCollective(p) ==
  /\ pc[p] = "run" /\ step[p] < Len(Collectives(p))
  /\ Completes(p)
  /\ step' = [step EXCEPT ![p] = @ + 1]
  /\ UNCHANGED pc
  /\ CollectiveUnchanged

\* rank p leaves its last collective and returns the topology
ReturnTopology(p) ==
  /\ pc[p] = "run" /\ step[p] = Len(Collectives(p))
  /\ Completes(p)
  /\ pc' = [pc EXCEPT ![p] = "done"]
  /\ UNCHANGED step
  /\ CollectiveUnchanged

\* rank p is in a collective that the other ranks answer with another
\* operation, or not at all: the call does not complete
Blocked(p) ==
  /\ pc[p] = "run" /\ step[p] > 0
  /\ IF AllEntered(step[p]) THEN ~SameCall(step[p])
                             ELSE NeverEntered(step[p])
  /\ pc' = [pc EXCEPT ![p] = "blocked"]
  /\ UNCHANGED step
  /\ CollectiveUnchanged

NextL ==
  \E p \in Ranks : EnterCollective(p) \/ ReturnTopology(p) \/ Blocked(p)

InitCollectives == InitS /\ \E in \in MixedInputs : InitFrom(in)

\* every rank keeps running while it can
SpecCollectives ==
  InitCollectives /\ [][NextL]_vars /\ WF_vars(NextL)

\* C29 (order): at every position of the run, the ranks that have reached
\* it are in a call of the same collective operation.
C29_SameCollectives ==
  \A p \in Ranks, q \in Ranks :
    \A k \in 1 .. Min({step[p], step[q]}) :
      Collectives(p)[k] = Collectives(q)[k]

\* C29: when all ranks call create_topology together with well-formed
\* input, every rank eventually returns; no rank stays in a collective
\* forever.
C29_AllRanksReturn == <>(\A p \in Ranks : pc[p] = "done")

(***************************************************************************)
(* Part II.  Further claims on the stored data                             *)
(***************************************************************************)
\* the index map of dim is visible together with the connectivities that
\* index_map(dim) asserts
EntityDataTogether(dim) ==
  View(IndexMapKey(dim)) # Null =>
    /\ View(ConnKey(TDim, dim)) # Null
    /\ View(ConnKey(dim, 0)) # Null

\* C32: in every state reached by queries, create_* calls, locks and
\* discards, a dimension whose index map is stored also has
\* connectivity(tdim,dim) and connectivity(dim,0) stored, and index_map
\* never stops on its assertions.
C32_IndexMapWithConnectivities ==
  topo \in {"ok", "abort"} =>
    /\ \A dim \in Dims : EntityDataTogether(dim)
    /\ (lastOp.op = "index_map" => topo = "ok")

\* C33: when create_entities(dim) has returned -1, remanent storage holds
\* index_map(dim), connectivity(tdim,dim) and connectivity(dim,0), none of
\* them empty, also when connectivity(dim,0) had been created on its own
\* by create_connectivity(dim,0) with the intermediate data discarded.
C33_ExistingEntitiesComplete ==
  (topo = "ok" /\ lastOp.op = "create_entities" /\ lastOp.ret = -1) =>
    \A k \in EntityKeys(lastOp.d0) : Held(k) # Null

\* the quantity a create_* member is asked for
Requested(name, d0, d1) ==
  IF name = "create_connectivity" THEN {ConnKey(d0, d1)}
  ELSE IF name = "create_interior_facets" THEN {InteriorFacetsKey}
  ELSE IF name = "create_entity_permutations" THEN {CellPermKey, FacetPermKey}
  ELSE {}

\* what the member's own queries compute before the kernel is called
Prerequisites(name, d0, d1) ==
  IF name = "create_connectivity" THEN EntityKeys(d0) \cup EntityKeys(d1)
  ELSE IF name = "create_interior_facets"
    THEN {ConnKey(TDim - 1, TDim)} \cup EntityKeys(TDim - 1)
           \cup EntityKeys(TDim)
  ELSE IF name = "create_entity_permutations"
    THEN UNION {EntityKeys(d) : d \in 0 .. (TDim - 1)}
  ELSE {}

\* what remanent storage holds after create_*(discard_intermediate = true)
DiscardingResult(name, d0, d1) ==
  IF name = "create_connectivity"
    THEN CreateConnectivityOp(remBase, remLayer, cacheLayers, d0, d1, TRUE).rl
  ELSE IF name = "create_interior_facets"
    THEN CreateInteriorFacetsOp(remBase, remLayer, cacheLayers, TRUE).rl
  ELSE CreateEntityPermutationsOp(remBase, remLayer, cacheLayers, TRUE).rl

\* the keys the step adds to the layer of remanent_lock
Added == DOMAIN remLayer' \ DOMAIN remLayer
\* the keys held by the cache layers of the caller's locks
CallerHolds == DOMAIN CacheOwn(cacheLayers)

\* C34: create_connectivity, create_interior_facets and
\* create_entity_permutations add to remanent storage the requested
\* quantity only when intermediate data are discarded, and the requested
\* quantity and the data computed as its prerequisite otherwise; nothing
\* else held in the caller's cache layers reaches remanent storage, and the
\* layer they force is gone on return: the cache layers are as before.
C34_CreateFrame ==
  [][\A name \in {"create_connectivity", "create_interior_facets",
                   "create_entity_permutations"}, d0 \in Dims, d1 \in Dims :
       Completed(name, d0, d1) =>
         /\ Added \subseteq Requested(name, d0, d1)
                              \cup Prerequisites(name, d0, d1)
         /\ remLayer' = DiscardingResult(name, d0, d1)
              => Added \subseteq Requested(name, d0, d1)
         /\ (Added \cap CallerHolds) \subseteq Requested(name, d0, d1)
         /\ cacheLayers' = cacheLayers]_vars

\* the kernel a create_* member calls for the requested quantity
KernelOf(name) ==
  IF name = "create_connectivity" THEN "compute_connectivity"
  ELSE IF name = "create_interior_facets" THEN "compute_interior_facets"
  ELSE "compute_entity_permutations"

\* what the kernel reads from the topology it is handed
KernelNeeds(name, d0, d1) ==
  IF name = "create_connectivity" THEN {IndexMapKey(d0), IndexMapKey(d1)}
  ELSE IF name = "create_interior_facets" THEN {ConnKey(TDim - 1, TDim)}
  ELSE {IndexMapKey(d) : d \in 0 .. (TDim - 1)}

\* the storage as it is when the member calls the kernel: the forced layer
\* is alive and holds what the member's own queries left in it
AtKernelCall(name, d0, d1, discard) ==
  LET cl1 == Acquire(cacheLayers, TRUE)
      st  == IF name = "create_connectivity"
               THEN QIndexMap(remBase,
                              QIndexMap(remBase, Enter(remLayer, cl1), d0), d1)
             ELSE IF name = "create_interior_facets"
               THEN QConnectivity(remBase, Enter(remLayer, cl1),
                                  TDim - 1, TDim, FALSE)
             ELSE AllIndexMaps(remBase, Enter(remLayer, cl1), 0)
  IN  [rl |-> IF discard THEN st.rl
              ELSE LayerReadFrom(st.rl, CacheOwn(st.cl)),
       cl |-> st.cl]

\* the kernel's prerequisites are visible through the query API when the
\* member calls it
PrerequisitesVisible(name, d0, d1) ==
  \A discard \in BOOLEAN :
    LET at == AtKernelCall(name, d0, d1, discard)
    IN  /\ Len(at.cl) = Len(cacheLayers) + 1
        /\ \A k \in KernelNeeds(name, d0, d1) :
             CacheGet(remBase, at.rl, at.cl, k) # Null

\* C35: a kernel is called only with its prerequisites visible through the
\* query API, the forced layer that holds them being alive during the
\* call: compute_connectivity(d0,d1) with index_map(d0) and index_map(d1),
\* compute_interior_facets with connectivity(tdim-1,tdim),
\* compute_entity_permutations with index_map(d) for every d < tdim.
C35_KernelPrerequisites ==
  [][\A name \in {"create_connectivity", "create_interior_facets",
                   "create_entity_permutations"}, d0 \in Dims, d1 \in Dims :
       (Completed(name, d0, d1) /\ KernelOf(name) \in kernels')
         => PrerequisitesVisible(name, d0, d1)]_vars

\* the layers below the most recent one
Earlier(cl) == IF cl = <<>> THEN <<>> ELSE DropLast(cl)
NewLayer == [data |-> EmptyMap, locks |-> 1]

KeptIn(old, new) ==
  \A k \in DOMAIN old : k \in DOMAIN new /\ new[k] = old[k]

\* the keys under which the step stores objects the entity kernel has just
\* made: create_entities(dim) stores them in the layer of remanent_lock,
\* index_map(dim) in the most recent cache layer of a caller's lock
FreshInRemanent ==
  UNION {EntityKeys(dim) : dim \in {d \in Dims :
            /\ Completed("create_entities", d, 0)
            /\ "compute_entities" \in kernels'}}
FreshInCache ==
  UNION {EntityKeys(dim) : dim \in {d \in Dims :
            /\ Completed("index_map", d, 0)
            /\ "compute_entities" \in kernels'
            /\ cacheLayers # <<>>}}

ReferenceQueries ==
  {"interior_facets", "get_cell_permutation_info", "get_facet_permutations"}

\* the object the last query returned a reference to is owned by a layer
\* of the cache or of remanent storage
ReferentAlive ==
  View(QueryKey(lastOp.op, lastOp.d0, lastOp.d1)) # Null

\* C38: when interior_facets(), get_cell_permutation_info() or
\* get_facet_permutations() has returned, the data the returned reference
\* refers to are alive, also when the caller holds no cache lock and the
\* data were kept by the layer of the call's own lock alone.
C38_ReturnedReferenceAlive ==
  (topo = "ok" /\ lastOp.op \in ReferenceQueries /\ lastOp.val # Null)
    => ReferentAlive

(***************************************************************************)
(* Part IV.  Further claims on on_boundary                                 *)
(***************************************************************************)
\* the facet indices on_boundary(dim) reads stay within the vectors it
\* reads and writes: the interior-facet markers and the offsets of
\* connectivity(tdim-1,dim) have one entry per facet, the returned markers
\* one per entity of dimension dim
ReadsInRange(b, dim) ==
  \A nf \in FacetCounts(b, dim) :
    /\ nf <= Len(InteriorMarkers(b))
    /\ nf <= Len(FacetEntities(b, dim))
    /\ dim = b.tdim - 1 => nf <= NumEntities(b, dim)

\* C39: for every mesh and every dim in 0..tdim-1, the number of facets
\* on_boundary(dim) iterates over exceeds neither the length of the
\* interior-facet markers nor that of the returned markers, so it reads
\* only at facet indices that exist and none of its assertions fails.
C39_BoundaryReadsInRange ==
  (Called /\ ~OutOfRange) =>
    /\ ReadsInRange(bIn, bOut.dim)
    /\ bOut.status \notin {"abort", "undefined", "crash"}

====
